---- MODULE Spec2Model ----
(***************************************************************************)
(* Weighted randomised Kruskal maze generation followed by the layered     *)
(* breadth-first solver, as implemented in maze_solver_bfs.py.             *)
(*                                                                         *)
(* Python lists indexed from 0 are modelled as TLA+ sequences (indexed     *)
(* from 1): list element k is sequence element k+1.  A reference to a wall *)
(* dict is modelled by the wall's slot in walls_by_index (WallRef).        *)
(***************************************************************************)
EXTENDS Integers, Sequences, FiniteSets, TLC

VARIABLES
    GRID_WIDTH,       \* number of columns of the grid
    GRID_HEIGHT,      \* number of rows of the grid
    union_find,       \* the disjoint-set array
    wall_queues,      \* the nine buckets, each a list of wall references
    walls_by_index,   \* the wall table: one record or None per slot
    start_x,          \* entrance column (top row)
    finish_x,         \* exit column (bottom row)
    solution_state,   \* depth of every cell, solution_state[y+1][x+1]
    solution_level,   \* current frontier, a list of <<x, y>>
    solution_depth,   \* depth counter of the solver
    phase,            \* "generation" or "solution"
    current_state,    \* the function the main loop calls next
    screen,           \* what has been painted: wall regions and the path
    maze_generator_v6, \* maze_generator_v6.py: the locals of generate_maze (Kruskal)
    maze_generator_v1, \* maze_generator_v1.py: the locals of generate_maze (backtracker)
    maze_generator_v3  \* maze_generator_v3.py: the locals of generate_maze (Prim)

maze == <<union_find, wall_queues, walls_by_index>>
solver == <<solution_state, solution_level, solution_depth>>
grid == <<GRID_WIDTH, GRID_HEIGHT, start_x, finish_x>>
generators == <<maze_generator_v6, maze_generator_v1, maze_generator_v3>>
vars == <<GRID_WIDTH, GRID_HEIGHT, union_find, wall_queues, walls_by_index,
          start_x, finish_x, solution_state, solution_level, solution_depth,
          phase, current_state, screen,
          maze_generator_v6, maze_generator_v1, maze_generator_v3>>

(***************************************************************************)
(* Bounds of the model.                                                    *)
(***************************************************************************)
MaxWidth == 3
MaxHeight == 3
MaxCells == 4

Grids == {g \in (1..MaxWidth) \X (1..MaxHeight) : g[1] * g[2] <= MaxCells}

\* The same grids and those with a width or a height of 0 or -1.
AnyGrids == {g \in (-1..MaxWidth) \X (-1..MaxHeight) : g[1] * g[2] <= MaxCells}

\* Wider grids, on which a wall has walls at both of its endpoints: there only
\* the first MaxDraws values of every random draw are explored.
MaxDraws == 1

WideGrids == {<<MaxWidth, MaxHeight - 1>>, <<MaxWidth - 1, MaxHeight>>}

\* On grids of more than MaxWideCells cells the bucket-selection draw is
\* explored at the two ends of its range only.
MaxWideCells == 6

\* the grid of the 3x3 scenario
ScenarioGrid == <<3, 3>>

(***************************************************************************)
(* Constants of the program.                                               *)
(***************************************************************************)
W_LOW == 1
W_LOW_MED == 2
W_MED == 5
W_MED_HIGH == 10
W_HIGH == 15
W_MAX == 17

\* weights[i] = 2 ^ (w * 0.5), here scaled by 1000 and rounded to an integer:
\* the weighted walk of step is computed in exact arithmetic.  (In floating
\* point the subtractions of the walk can round so that the loop runs out and
\* falls back to bucket 0; that rounding is not modelled.)
RECURSIVE Pow2(_)
Pow2(n) == IF n = 0 THEN 1 ELSE 2 * Pow2(n - 1)

WeightScale == 1000
Sqrt2Scaled == 1414

PowHalf(w) == IF w % 2 = 0 THEN Pow2(w \div 2) * WeightScale
              ELSE Pow2(w \div 2) * Sqrt2Scaled

weights == [i \in 0..8 |->
              PowHalf(<<W_MAX, W_HIGH, W_MED, W_HIGH, W_MED_HIGH,
                        W_LOW_MED, W_MED, W_LOW_MED, W_LOW>>[i + 1])]

None == [x |-> -1, y |-> -1, dr |-> FALSE, typ |-> 0, clr |-> FALSE]

\* the reference to a wall: its slot in walls_by_index
WallRef(wall) == (wall.y * GRID_WIDTH + wall.x) * 2 + (IF wall.dr THEN 0 ELSE 1)

(***************************************************************************)
(* Utility functions.                                                      *)
(***************************************************************************)
\* the values rand_int(n) = random.randrange(n) can return; none when n <= 0,
\* where randrange raises ValueError
rand_int(n) ==
    IF GRID_WIDTH * GRID_HEIGHT <= MaxCells
    THEN 0..(n - 1)
    ELSE {k \in 0..(n - 1) : k < MaxDraws}

\* arr.insert(pos, item), pos in 0..len(arr)
Insert(arr, pos, item) ==
    SubSeq(arr, 1, pos) \o <<item>> \o SubSeq(arr, pos + 1, Len(arr))

\* the lists push_rand(arr, item) can leave: one per value of rand_int(len+1)
push_rand(arr, item) == {Insert(arr, pos, item) : pos \in rand_int(Len(arr) + 1)}

\* pushrand that overwrites slot i without appending the entry it displaces
pushrand_overwrites(arr, item) ==
    IF Len(arr) < 1 THEN {Append(arr, item)}
    ELSE {IF i >= Len(arr) THEN Append(arr, item)
          ELSE [arr EXCEPT ![i + 1] = item] : i \in rand_int(Len(arr) + 1)}

\* pushrand of weighted_kruskal_maze.py: append when the list is empty or the
\* drawn index is its length, else append arr[i] and put the item at i; randInt
\* is random.randrange as rand_int is
pushrand(arr, item) ==
    IF Len(arr) < 1 THEN {Append(arr, item)}
    ELSE {IF i >= Len(arr) THEN Append(arr, item)
          ELSE [Append(arr, arr[i + 1]) EXCEPT ![i + 1] = item] : i \in rand_int(Len(arr) + 1)}

(***************************************************************************)
(* Union-find.                                                             *)
(***************************************************************************)
\* while len(union_find) <= cell: union_find.append(-1)
Grow(uf, cell) ==
    IF Len(uf) <= cell
    THEN uf \o [k \in 1..(cell + 1 - Len(uf)) |-> -1]
    ELSE uf

\* while union_find[cell] >= 0: cell = union_find[cell]
RECURSIVE FindRoot(_, _)
FindRoot(uf, cell) ==
    IF uf[cell + 1] >= 0 THEN FindRoot(uf, uf[cell + 1]) ELSE cell

\* the path-compression loop
RECURSIVE Compress(_, _, _)
Compress(uf, src, root) ==
    IF uf[src + 1] >= 0 /\ uf[src + 1] # root
    THEN Compress([uf EXCEPT ![src + 1] = root], uf[src + 1], root)
    ELSE uf

\* ufind without the path-compression loop
ufind_no_compression(uf, cell) ==
    LET grown == Grow(uf, cell)
        root == FindRoot(grown, cell)
    IN  [uf |-> grown, root |-> root]

ufind(uf, cell) ==
    LET grown == Grow(uf, cell)
        root == FindRoot(grown, cell)
    IN  [uf |-> Compress(grown, cell, root), root |-> root]

\* union with "return True" outside the "if i != j" block
union_returns_true(uf, cell_i, cell_j) ==
    LET fi == ufind(uf, cell_i)
        fj == ufind(fi.uf, cell_j)
        i == fi.root
        j == fj.root
        u == fj.uf
    IN  IF i # j
        THEN IF u[i + 1] >= u[j + 1]
             THEN [uf |-> [u EXCEPT ![j + 1] = u[j + 1] + u[i + 1], ![i + 1] = j],
                   ret |-> TRUE]
             ELSE [uf |-> [u EXCEPT ![i + 1] = u[i + 1] + u[j + 1], ![j + 1] = i],
                   ret |-> TRUE]
        ELSE [uf |-> u, ret |-> TRUE]

\* union that adds the sizes but leaves out the parent link
union_no_link(uf, cell_i, cell_j) ==
    LET fi == ufind(uf, cell_i)
        fj == ufind(fi.uf, cell_j)
        i == fi.root
        j == fj.root
        u == fj.uf
    IN  IF i # j
        THEN IF u[i + 1] >= u[j + 1]
             THEN [uf |-> [u EXCEPT ![j + 1] = u[j + 1] + u[i + 1]], ret |-> TRUE]
             ELSE [uf |-> [u EXCEPT ![i + 1] = u[i + 1] + u[j + 1]], ret |-> TRUE]
        ELSE [uf |-> u, ret |-> FALSE]

\* union that keeps the first root when the two trees have the same size
union_first_absorbs(uf, cell_i, cell_j) ==
    LET fi == ufind(uf, cell_i)
        fj == ufind(fi.uf, cell_j)
        i == fi.root
        j == fj.root
        u == fj.uf
    IN  IF i # j
        THEN IF u[i + 1] > u[j + 1]
             THEN [uf |-> [u EXCEPT ![j + 1] = u[j + 1] + u[i + 1], ![i + 1] = j],
                   ret |-> TRUE]
             ELSE [uf |-> [u EXCEPT ![i + 1] = u[i + 1] + u[j + 1], ![j + 1] = i],
                   ret |-> TRUE]
        ELSE [uf |-> u, ret |-> FALSE]

\* union that links the roots but does not add the sizes
union_keeps_size(uf, cell_i, cell_j) ==
    LET fi == ufind(uf, cell_i)
        fj == ufind(fi.uf, cell_j)
        i == fi.root
        j == fj.root
        u == fj.uf
    IN  IF i # j
        THEN IF u[i + 1] >= u[j + 1]
             THEN [uf |-> [u EXCEPT ![i + 1] = j], ret |-> TRUE]
             ELSE [uf |-> [u EXCEPT ![j + 1] = i], ret |-> TRUE]
        ELSE [uf |-> u, ret |-> FALSE]

union(uf, cell_i, cell_j) ==
    LET fi == ufind(uf, cell_i)
        fj == ufind(fi.uf, cell_j)
        i == fi.root
        j == fj.root
        u == fj.uf
    IN  IF i # j
        THEN IF u[i + 1] >= u[j + 1]
             THEN [uf |-> [u EXCEPT ![j + 1] = u[j + 1] + u[i + 1], ![i + 1] = j],
                   ret |-> TRUE]
             ELSE [uf |-> [u EXCEPT ![i + 1] = u[i + 1] + u[j + 1], ![j + 1] = i],
                   ret |-> TRUE]
        ELSE [uf |-> u, ret |-> FALSE]

(***************************************************************************)
(* Walls and neighbours.                                                   *)
(***************************************************************************)
\* get_wall with the two slots of a cell the other way round
get_wall_swapped(walls, x, y, is_horizontal) ==
    IF 0 <= x /\ x < GRID_WIDTH /\ 0 <= y /\ y < GRID_HEIGHT
    THEN walls[(y * GRID_WIDTH + x) * 2 + (IF is_horizontal THEN 1 ELSE 0) + 1]
    ELSE None

get_wall(walls, x, y, is_horizontal) ==
    IF 0 <= x /\ x < GRID_WIDTH /\ 0 <= y /\ y < GRID_HEIGHT
    THEN walls[(y * GRID_WIDTH + x) * 2 + (IF is_horizontal THEN 0 ELSE 1) + 1]
    ELSE None

HORIZONTAL_OFFSETS == << <<0, -1, FALSE>>, <<0, -1, TRUE>>, <<1, -1, FALSE>>,
                         <<0, 0, FALSE>>, <<0, 1, TRUE>>, <<1, 0, FALSE>> >>
VERTICAL_OFFSETS == << <<-1, 0, TRUE>>, <<-1, 0, FALSE>>, <<-1, 1, TRUE>>,
                       <<0, 0, TRUE>>, <<1, 0, FALSE>>, <<0, 1, TRUE>> >>

get_neighbour(walls, wall, n) ==
    LET offsets == IF wall.dr THEN HORIZONTAL_OFFSETS ELSE VERTICAL_OFFSETS
    IN  IF n \in 0..5
        THEN get_wall(walls, wall.x + offsets[n + 1][1],
                      wall.y + offsets[n + 1][2], offsets[n + 1][3])
        ELSE None

get_wall_end_type(w1, w2, w3) ==
    IF w1 # None /\ w1.clr
    THEN IF w3 # None /\ w3.clr THEN 2
         ELSE IF w2 # None /\ w2.clr THEN 2
         ELSE 1
    ELSE IF w3 # None /\ w3.clr
         THEN IF w2 # None /\ w2.clr THEN 2 ELSE 1
         ELSE 0

\* the classification with the first end type weighted by 2
new_type_base_two(walls, wall) ==
    LET t1 == get_wall_end_type(get_neighbour(walls, wall, 0),
                                get_neighbour(walls, wall, 1),
                                get_neighbour(walls, wall, 2))
        t2 == get_wall_end_type(get_neighbour(walls, wall, 3),
                                get_neighbour(walls, wall, 4),
                                get_neighbour(walls, wall, 5))
    IN  t1 * 2 + t2

\* t1 * 3 + t2 as update_wall_type computes it
new_type(walls, wall) ==
    LET t1 == get_wall_end_type(get_neighbour(walls, wall, 0),
                                get_neighbour(walls, wall, 1),
                                get_neighbour(walls, wall, 2))
        t2 == get_wall_end_type(get_neighbour(walls, wall, 3),
                                get_neighbour(walls, wall, 4),
                                get_neighbour(walls, wall, 5))
    IN  t1 * 3 + t2

\* update_wall_type that raises the type without pushing the wall
update_wall_type_no_push(m, ref) ==
    LET wall == m.walls[ref + 1]
        nt == new_type(m.walls, wall)
    IN  IF nt > wall.typ
        THEN {[walls |-> [m.walls EXCEPT ![ref + 1].typ = nt], queues |-> m.queues]}
        ELSE {m}

\* update_wall_type that also pushes the wall when the classification equals
\* the stored type
update_wall_type_or_equal(m, ref) ==
    LET wall == m.walls[ref + 1]
        nt == new_type(m.walls, wall)
    IN  IF nt >= wall.typ
        THEN {[walls |-> [m.walls EXCEPT ![ref + 1].typ = nt],
               queues |-> [m.queues EXCEPT ![nt] = q]] :
                 q \in push_rand(m.queues[nt], ref)}
        ELSE {m}

\* update_wall_type that pushes the wall into the bucket of its old type
update_wall_type_old_bucket(m, ref) ==
    LET wall == m.walls[ref + 1]
        nt == new_type(m.walls, wall)
    IN  IF nt > wall.typ
        THEN {[walls |-> [m.walls EXCEPT ![ref + 1].typ = nt],
               queues |-> [m.queues EXCEPT ![wall.typ] = q]] :
                 q \in push_rand(m.queues[wall.typ], ref)}
        ELSE {m}

\* update_wall_type that pushes the wall but leaves its type as it was
update_wall_type_keeps_type(m, ref) ==
    LET wall == m.walls[ref + 1]
        nt == new_type(m.walls, wall)
    IN  IF nt > wall.typ
        THEN {[walls |-> m.walls,
               queues |-> [m.queues EXCEPT ![nt] = q]] :
                 q \in push_rand(m.queues[nt], ref)}
        ELSE {m}

\* update_wall_type on the wall stored at slot ref; m = [walls, queues].
\* The result is the set of states the random insertion can leave.
update_wall_type(m, ref) ==
    LET wall == m.walls[ref + 1]
        nt == new_type(m.walls, wall)
    IN  IF nt > wall.typ
        THEN {[walls |-> [m.walls EXCEPT ![ref + 1].typ = nt],
               queues |-> [m.queues EXCEPT ![nt] = q]] :
                 q \in push_rand(m.queues[nt], ref)}
        ELSE {m}

\* the neighbour loop that stops before the last neighbour: range(5)
RECURSIVE update_neighbours_five(_, _, _)
update_neighbours_five(m, wall, i) ==
    IF i >= 5 THEN {m}
    ELSE LET neighbour == get_neighbour(m.walls, wall, i)
         IN  IF neighbour # None
             THEN UNION {update_neighbours_five(m2, wall, i + 1) :
                           m2 \in update_wall_type(m, WallRef(neighbour))}
             ELSE update_neighbours_five(m, wall, i + 1)

\* the neighbour loop that passes over neighbours already removed
RECURSIVE update_neighbours_standing(_, _, _)
update_neighbours_standing(m, wall, i) ==
    IF i >= 6 THEN {m}
    ELSE LET neighbour == get_neighbour(m.walls, wall, i)
         IN  IF neighbour # None /\ ~neighbour.clr
             THEN UNION {update_neighbours_standing(m2, wall, i + 1) :
                           m2 \in update_wall_type(m, WallRef(neighbour))}
             ELSE update_neighbours_standing(m, wall, i + 1)

\* for i in range(6): neighbour = get_neighbour(wall, i); if neighbour: update
RECURSIVE update_neighbours(_, _, _)
update_neighbours(m, wall, i) ==
    IF i >= 6 THEN {m}
    ELSE LET neighbour == get_neighbour(m.walls, wall, i)
         IN  IF neighbour # None
             THEN UNION {update_neighbours(m2, wall, i + 1) :
                           m2 \in update_wall_type(m, WallRef(neighbour))}
             ELSE update_neighbours(m, wall, i + 1)

\* try_wall that calls union but does not look at its result
try_wall_unchecked(s, ref) ==
    LET wall == s.walls[ref + 1]
        cell_index1 == wall.y * GRID_WIDTH + wall.x
        cell_index2 == cell_index1 + (IF wall.dr THEN 1 ELSE GRID_WIDTH)
        u == union(s.uf, cell_index1, cell_index2)
        removed == [s.walls EXCEPT ![ref + 1].clr = TRUE]
    IN  IF wall.clr
        THEN {[s EXCEPT !.ret = FALSE]}
        ELSE {[uf |-> u.uf, walls |-> m.walls, queues |-> m.queues,
               painted |-> [s.painted EXCEPT ![ref + 1] = @ + 1],
               ret |-> TRUE] :
                 m \in update_neighbours([walls |-> removed, queues |-> s.queues],
                                         removed[ref + 1], 0)}

\* try_wall with the test on union inverted: "if union(...): return False"
try_wall_inverted(s, ref) ==
    LET wall == s.walls[ref + 1]
        cell_index1 == wall.y * GRID_WIDTH + wall.x
        cell_index2 == cell_index1 + (IF wall.dr THEN 1 ELSE GRID_WIDTH)
        u == union(s.uf, cell_index1, cell_index2)
        removed == [s.walls EXCEPT ![ref + 1].clr = TRUE]
    IN  IF wall.clr
        THEN {[s EXCEPT !.ret = FALSE]}
        ELSE IF u.ret
        THEN {[s EXCEPT !.uf = u.uf, !.ret = FALSE]}
        ELSE {[uf |-> u.uf, walls |-> m.walls, queues |-> m.queues,
               painted |-> [s.painted EXCEPT ![ref + 1] = @ + 1],
               ret |-> TRUE] :
                 m \in update_neighbours([walls |-> removed, queues |-> s.queues],
                                         removed[ref + 1], 0)}

\* try_wall that calls union before it looks at the removed flag
try_wall_union_first(s, ref) ==
    LET wall == s.walls[ref + 1]
        cell_index1 == wall.y * GRID_WIDTH + wall.x
        cell_index2 == cell_index1 + (IF wall.dr THEN 1 ELSE GRID_WIDTH)
        u == union(s.uf, cell_index1, cell_index2)
        removed == [s.walls EXCEPT ![ref + 1].clr = TRUE]
    IN  IF ~u.ret \/ wall.clr
        THEN {[s EXCEPT !.uf = u.uf, !.ret = FALSE]}
        ELSE {[uf |-> u.uf, walls |-> m.walls, queues |-> m.queues,
               painted |-> [s.painted EXCEPT ![ref + 1] = @ + 1],
               ret |-> TRUE] :
                 m \in update_neighbours([walls |-> removed, queues |-> s.queues],
                                         removed[ref + 1], 0)}

\* try_wall on the wall stored at slot ref; s = [uf, walls, queues, painted].
\* painted counts the fill_cell calls on each wall's region.
try_wall(s, ref) ==
    LET wall == s.walls[ref + 1]
        cell_index1 == wall.y * GRID_WIDTH + wall.x
        cell_index2 == cell_index1 + (IF wall.dr THEN 1 ELSE GRID_WIDTH)
        u == union(s.uf, cell_index1, cell_index2)
        removed == [s.walls EXCEPT ![ref + 1].clr = TRUE]
    IN  IF wall.clr
        THEN {[s EXCEPT !.ret = FALSE]}
        ELSE IF ~u.ret
        THEN {[s EXCEPT !.uf = u.uf, !.ret = FALSE]}
        ELSE {[uf |-> u.uf, walls |-> m.walls, queues |-> m.queues,
               painted |-> [s.painted EXCEPT ![ref + 1] = @ + 1],
               ret |-> TRUE] :
                 m \in update_neighbours([walls |-> removed, queues |-> s.queues],
                                         removed[ref + 1], 0)}

(***************************************************************************)
(* Maze generation step and initialisation.                                *)
(***************************************************************************)
queue_weight(queues, i) == Len(queues[i]) * weights[i]

RECURSIVE SumWeights(_, _)
SumWeights(queues, n) ==
    IF n = 0 THEN 0 ELSE SumWeights(queues, n - 1) + queue_weight(queues, n - 1)

\* the total weight of bucket 0 alone
total_weight_first_bucket(queues) == SumWeights(queues, 1)

total_weight(queues) == SumWeights(queues, 9)

\* the weighted walk with "<=" for "<": a threshold equal to what is left
\* stops at the bucket, also at an empty one
RECURSIVE WeightedWalk_or_equal(_, _, _)
WeightedWalk_or_equal(queues, i, random_threshold) ==
    IF i > 8 THEN 0
    ELSE IF random_threshold <= queue_weight(queues, i) THEN i
    ELSE WeightedWalk_or_equal(queues, i + 1, random_threshold - queue_weight(queues, i))

\* the for / else loop of step: the first bucket whose weight exceeds what is
\* left of the threshold, bucket 0 when the loop runs out
RECURSIVE WeightedWalk(_, _, _)
WeightedWalk(queues, i, random_threshold) ==
    IF i > 8 THEN 0
    ELSE IF random_threshold < queue_weight(queues, i) THEN i
    ELSE WeightedWalk(queues, i + 1, random_threshold - queue_weight(queues, i))

queue_index(queues, random_threshold) == WeightedWalk(queues, 0, random_threshold)

\* Values of total_weight * random.random(), which lies in [0, total_weight):
\* the first and the last value of every bucket's interval of the walk.
RandomThresholds(queues) ==
    IF GRID_WIDTH * GRID_HEIGHT <= MaxWideCells
    THEN {r \in UNION {{SumWeights(queues, i), SumWeights(queues, i + 1) - 1} : i \in 0..8} :
            0 <= r /\ r < total_weight(queues)}
    ELSE {0, total_weight(queues) - 1}

NoCall == [ret |-> FALSE, popped |-> -1, tried |-> FALSE, opened |-> FALSE]

\* step that reads the last entry of the bucket without popping it
step_queue_peek(s, qi) ==
    LET queue == s.queues[qi]
        ref == queue[Len(queue)]
    IN  IF Len(queue) = 0
        THEN {[st |-> s, out |-> [NoCall EXCEPT !.ret = TRUE]]}
        ELSE IF s.walls[ref + 1] # None /\ s.walls[ref + 1].typ = qi
        THEN {[st |-> t,
               out |-> [ret |-> TRUE, popped |-> ref, tried |-> TRUE, opened |-> t.ret]] :
                 t \in try_wall(s, ref)}
        ELSE {[st |-> s,
               out |-> [ret |-> TRUE, popped |-> ref, tried |-> FALSE, opened |-> FALSE]]}

\* step that assigns the bucket index to the type instead of comparing them
step_queue_assign(s, qi) ==
    LET queue == s.queues[qi]
        ref == queue[Len(queue)]
        popped == [s EXCEPT !.queues[qi] = SubSeq(queue, 1, Len(queue) - 1),
                            !.walls[ref + 1].typ = qi]
    IN  IF Len(queue) = 0
        THEN {[st |-> s, out |-> [NoCall EXCEPT !.ret = TRUE]]}
        ELSE {[st |-> t,
               out |-> [ret |-> TRUE, popped |-> ref, tried |-> TRUE, opened |-> t.ret]] :
                 t \in try_wall(popped, ref)}

\* step that takes an entry from any position of the bucket, not the last one
step_queue_pops_any(s, qi) ==
    LET queue == s.queues[qi]
    IN  IF Len(queue) = 0
        THEN {[st |-> s, out |-> [NoCall EXCEPT !.ret = TRUE]]}
        ELSE UNION {
               LET ref == queue[p]
                   popped == [s EXCEPT !.queues[qi] =
                                 SubSeq(queue, 1, p - 1) \o SubSeq(queue, p + 1, Len(queue))]
               IN  IF s.walls[ref + 1] # None /\ s.walls[ref + 1].typ = qi
                   THEN {[st |-> t,
                          out |-> [ret |-> TRUE, popped |-> ref, tried |-> TRUE,
                                   opened |-> t.ret]] : t \in try_wall(popped, ref)}
                   ELSE {[st |-> popped,
                          out |-> [ret |-> TRUE, popped |-> ref, tried |-> FALSE,
                                   opened |-> FALSE]]} : p \in 1..Len(queue)}

\* the part of step after the bucket is selected
step_queue(s, qi) ==
    LET queue == s.queues[qi]
        ref == queue[Len(queue)]
        popped == [s EXCEPT !.queues[qi] = SubSeq(queue, 1, Len(queue) - 1)]
    IN  IF Len(queue) = 0
        THEN {[st |-> s, out |-> [NoCall EXCEPT !.ret = TRUE]]}
        ELSE IF s.walls[ref + 1] # None /\ s.walls[ref + 1].typ = qi
        THEN {[st |-> t,
               out |-> [ret |-> TRUE, popped |-> ref, tried |-> TRUE, opened |-> t.ret]] :
                 t \in try_wall(popped, ref)}
        ELSE {[st |-> popped,
               out |-> [ret |-> TRUE, popped |-> ref, tried |-> FALSE, opened |-> FALSE]]}

\* step: the set of [st, out] one call can produce from s
step(s) ==
    IF total_weight(s.queues) <= 0
    THEN {[st |-> s, out |-> NoCall]}
    ELSE UNION {step_queue(s, queue_index(s.queues, r)) : r \in RandomThresholds(s.queues)}

\* the wall table with horizontal walls on the right boundary as well
InitWalls_right_boundary(w, h) ==
    [k \in 1..(2 * w * h) |->
        LET cell == (k - 1) \div 2
            x == cell % w
            y == cell \div w
            dr == (k - 1) % 2 = 0
        IN  IF (dr /\ x <= w - 1) \/ (~dr /\ y < h - 1)
            THEN [x |-> x, y |-> y, dr |-> dr, typ |-> 0, clr |-> FALSE]
            ELSE None]

\* the wall table init builds: slot (y * W + x) * 2 holds the horizontal wall of
\* cell (x, y), the next slot its vertical wall, None where the grid ends
InitWalls(w, h) ==
    [k \in 1..(2 * w * h) |->
        LET cell == (k - 1) \div 2
            x == cell % w
            y == cell \div w
            dr == (k - 1) % 2 = 0
        IN  IF (dr /\ x < w - 1) \/ (~dr /\ y < h - 1)
            THEN [x |-> x, y |-> y, dr |-> dr, typ |-> 0, clr |-> FALSE]
            ELSE None]

\* bucket 0 after init pushed the walls of slots 0..k-1 with push_rand
RECURSIVE InitQueue(_, _)
InitQueue(walls, k) ==
    IF k <= 0 THEN {<<>>}
    ELSE IF walls[k] = None THEN InitQueue(walls, k - 1)
    ELSE UNION {push_rand(q, k - 1) : q \in InitQueue(walls, k - 1)}

NoScreen(w, h) == [walls |-> [k \in 1..(2 * w * h) |-> 0], path |-> <<>>]

\* a script that is not the one being run
NotRun == [pc |-> "not run"]

\* maze_solver_bfs.py is run, the generator scripts are not
GeneratorsNotRun ==
    /\ maze_generator_v6 = NotRun
    /\ maze_generator_v1 = NotRun
    /\ maze_generator_v3 = NotRun

\* the state init leaves on a grid of g[1] by g[2] cells, but for the
\* entrance and the exit column
InitMaze(g) ==
    /\ GRID_WIDTH = g[1]
    /\ GRID_HEIGHT = g[2]
    /\ union_find = <<>>
    /\ walls_by_index = InitWalls(g[1], g[2])
    /\ \E q \in InitQueue(InitWalls(g[1], g[2]), 2 * g[1] * g[2]) :
          wall_queues = [i \in 0..8 |-> IF i = 0 THEN q ELSE <<>>]
    /\ solution_state = <<>>
    /\ solution_level = <<>>
    /\ solution_depth = 0
    /\ phase = "generation"
    /\ current_state = "step"
    /\ screen = NoScreen(g[1], g[2])
    /\ GeneratorsNotRun

\* the state init leaves on a grid of g[1] by g[2] cells
InitOn(g) ==
    /\ InitMaze(g)
    /\ start_x \in rand_int(g[1])
    /\ finish_x \in rand_int(g[1])

\* init on the 3x3 grid drawing entrance column 0 and exit column 2
ScenarioInit ==
    /\ InitMaze(ScenarioGrid)
    /\ start_x = 0
    /\ finish_x = ScenarioGrid[1] - 1

Init == \E g \in Grids : InitOn(g)

WideInit == \E g \in WideGrids : InitOn(g)

\* start_x and finish_x before init has assigned them
Unset == -1

\* the state in which init ends the program with the uncaught exception err,
\* raised after the tables were reset; sx and fx are the values the entrance
\* and the exit column can have by then.
\* phase and current_state are assigned after init only: here current_state
\* holds the name of the exception.
InitRaises(g, err, sx, fx) ==
    /\ GRID_WIDTH = g[1]
    /\ GRID_HEIGHT = g[2]
    /\ union_find = <<>>
    /\ walls_by_index = <<>>
    /\ wall_queues = [i \in 0..8 |-> <<>>]
    /\ start_x \in sx
    /\ finish_x \in fx
    /\ solution_state = <<>>
    /\ solution_level = <<>>
    /\ solution_depth = 0
    /\ phase = "init"
    /\ current_state = err
    /\ screen = NoScreen(0, 0)
    /\ GeneratorsNotRun

\* init on any grid dimensions.  Width <= 0: rand_int(GRID_WIDTH) raises
\* ValueError.  Width > 0 and height 0: both columns are drawn, then fill_cell
\* divides by GRID_HEIGHT and raises ZeroDivisionError.  Width > 0 and
\* height < 0: nothing raises, range(GRID_HEIGHT) is empty and init returns
\* with an empty wall table and empty buckets.
InitAny(g) ==
    IF g[1] <= 0
    THEN InitRaises(g, "ValueError", {Unset}, {Unset})
    ELSE IF g[2] = 0
    THEN InitRaises(g, "ZeroDivisionError", rand_int(g[1]), rand_int(g[1]))
    ELSE InitOn(g)

GeometryInit == \E g \in AnyGrids : InitAny(g)

\* the generation state the functions above work on
gen == [uf |-> union_find, walls |-> walls_by_index, queues |-> wall_queues,
        painted |-> screen.walls, ret |-> FALSE]

\* the main loop calls step; a False result clears current_state
Step ==
    /\ current_state = "step"
    /\ \E o \in step(gen) :
          /\ union_find' = o.st.uf
          /\ walls_by_index' = o.st.walls
          /\ wall_queues' = o.st.queues
          /\ screen' = [screen EXCEPT !.walls = o.st.painted]
          /\ current_state' = IF o.out.ret THEN "step" ELSE "None"
    /\ UNCHANGED <<grid, solver, phase, generators>>

(***************************************************************************)
(* The solver.                                                             *)
(***************************************************************************)
\* init_solution: depth 0 everywhere, the entrance at depth 1 as the frontier
init_solution ==
    [state |-> [y \in 1..GRID_HEIGHT |->
                  [x \in 1..GRID_WIDTH |-> IF y = 1 /\ x = start_x + 1 THEN 1 ELSE 0]],
     level |-> << <<start_x, 0>> >>,
     depth |-> 1]

walldiff == <<-GRID_WIDTH * 2 + 1, 0, -2, 1>>

\* coordinates of neighbour n of cell (cx, cy): up, right, left, down
neighbour_y(cy, n) == cy - 1 + (IF n >= 2 THEN n - 1 ELSE n)
neighbour_x(cx, n) == cx + (n % 2) - ((n \div 2) % 2)

\* the bounds test that takes the last row for outside the grid
in_grid_short(tx, ty) == 0 <= tx /\ tx < GRID_WIDTH /\ 0 <= ty /\ ty < GRID_HEIGHT - 1

in_grid(tx, ty) == 0 <= tx /\ tx < GRID_WIDTH /\ 0 <= ty /\ ty < GRID_HEIGHT

\* the wall at wall_index exists and has been removed
wall_open(walls, wall_index) ==
    /\ 0 <= wall_index
    /\ wall_index < Len(walls)
    /\ walls[wall_index + 1] # None
    /\ walls[wall_index + 1].clr

\* the expansion without the test that the wall has been removed
RECURSIVE expand_through_walls(_, _, _, _, _, _)
expand_through_walls(walls, so, old_level, depth, k, n) ==
    IF k > Len(old_level) THEN so
    ELSE IF n > 3 THEN expand_through_walls(walls, so, old_level, depth, k + 1, 0)
    ELSE LET cx == old_level[k][1]
             cy == old_level[k][2]
             ty == neighbour_y(cy, n)
             tx == neighbour_x(cx, n)
         IN  IF /\ in_grid(tx, ty)
                /\ so.state[ty + 1][tx + 1] = 0
             THEN expand_through_walls(walls,
                         [state |-> [so.state EXCEPT ![ty + 1][tx + 1] = depth],
                          level |-> Append(so.level, <<tx, ty>>)],
                         old_level, depth, k, n + 1)
             ELSE expand_through_walls(walls, so, old_level, depth, k, n + 1)

\* the expansion loops of solution_step, from frontier cell k (from 1) and
\* direction n on; so = [state, level]
RECURSIVE expand(_, _, _, _, _, _)
expand(walls, so, old_level, depth, k, n) ==
    IF k > Len(old_level) THEN so
    ELSE IF n > 3 THEN expand(walls, so, old_level, depth, k + 1, 0)
    ELSE LET cx == old_level[k][1]
             cy == old_level[k][2]
             wallr == (cy * GRID_WIDTH + cx) * 2
             ty == neighbour_y(cy, n)
             tx == neighbour_x(cx, n)
         IN  IF /\ in_grid(tx, ty)
                /\ so.state[ty + 1][tx + 1] = 0
                /\ wall_open(walls, wallr + walldiff[n + 1])
             THEN expand(walls,
                         [state |-> [so.state EXCEPT ![ty + 1][tx + 1] = depth],
                          level |-> Append(so.level, <<tx, ty>>)],
                         old_level, depth, k, n + 1)
             ELSE expand(walls, so, old_level, depth, k, n + 1)

\* the backtrace moving to any lower neighbour, removed wall or not
backtrace_moves_any_wall(walls, state, x, y) ==
    {n \in 0..3 :
        LET ty == neighbour_y(y, n)
            tx == neighbour_x(x, n)
        IN  /\ in_grid(tx, ty)
            /\ state[ty + 1][tx + 1] # 0
            /\ state[ty + 1][tx + 1] < state[y + 1][x + 1]}

\* the directions in which the backtrace may leave cell (x, y)
backtrace_moves(walls, state, x, y) ==
    {n \in 0..3 :
        LET ty == neighbour_y(y, n)
            tx == neighbour_x(x, n)
        IN  /\ in_grid(tx, ty)
            /\ state[ty + 1][tx + 1] # 0
            /\ state[ty + 1][tx + 1] < state[y + 1][x + 1]
            /\ wall_open(walls, (y * GRID_WIDTH + x) * 2 + walldiff[n + 1])}

\* the backtrace that leaves the loop before it paints the last cell
RECURSIVE backtrace_skips_last(_, _, _, _, _)
backtrace_skips_last(walls, state, x, y, path) ==
    LET moves == backtrace_moves(walls, state, x, y)
        n == CHOOSE m \in moves : \A o \in moves : m <= o
    IN  IF moves = {}
        THEN path
        ELSE backtrace_skips_last(walls, state, neighbour_x(x, n), neighbour_y(y, n),
                                  Append(path, <<x, y>>))

\* the backtrace that records every cell twice
RECURSIVE backtrace_paints_twice(_, _, _, _, _)
backtrace_paints_twice(walls, state, x, y, path) ==
    LET moves == backtrace_moves(walls, state, x, y)
        n == CHOOSE m \in moves : \A o \in moves : m <= o
    IN  IF moves = {}
        THEN path \o << <<x, y>>, <<x, y>> >>
        ELSE backtrace_paints_twice(walls, state, neighbour_x(x, n), neighbour_y(y, n),
                                    path \o << <<x, y>>, <<x, y>> >>)

\* the backtrace loop: the cells painted in PATH_COLOUR, in order
RECURSIVE backtrace(_, _, _, _, _)
backtrace(walls, state, x, y, path) ==
    LET moves == backtrace_moves(walls, state, x, y)
        n == CHOOSE m \in moves : \A o \in moves : m <= o
    IN  IF moves = {}
        THEN Append(path, <<x, y>>)
        ELSE backtrace(walls, state, neighbour_x(x, n), neighbour_y(y, n),
                       Append(path, <<x, y>>))

\* solution_step asking for another call whenever the exit has no depth yet,
\* new frontier or not
solution_step_ignores_frontier(walls, so) ==
    LET depth == so.depth + 1
        ex == expand(walls, [state |-> so.state, level |-> <<>>], so.level, depth, 1, 0)
        next == [state |-> ex.state, level |-> ex.level, depth |-> depth]
    IN  IF ex.state[GRID_HEIGHT][finish_x + 1] = 0
        THEN [so |-> next, path |-> <<>>, ret |-> TRUE]
        ELSE [so |-> next,
              path |-> backtrace(walls, ex.state, finish_x, GRID_HEIGHT - 1, <<>>),
              ret |-> FALSE]

\* solution_step on so = [state, level, depth]
solution_step(walls, so) ==
    LET depth == so.depth + 1
        ex == expand(walls, [state |-> so.state, level |-> <<>>], so.level, depth, 1, 0)
        next == [state |-> ex.state, level |-> ex.level, depth |-> depth]
    IN  IF ex.state[GRID_HEIGHT][finish_x + 1] = 0
        THEN [so |-> next, path |-> <<>>, ret |-> ex.level # <<>>]
        ELSE [so |-> next,
              path |-> backtrace(walls, ex.state, finish_x, GRID_HEIGHT - 1, <<>>),
              ret |-> FALSE]

\* the switch to the solver without the test that step has returned False
StartSolution_early ==
    /\ phase = "generation"
    /\ phase' = "solution"
    /\ solution_state' = init_solution.state
    /\ solution_level' = init_solution.level
    /\ solution_depth' = init_solution.depth
    /\ current_state' = "solution_step"
    /\ UNCHANGED <<grid, maze, screen, generators>>

\* generation is over: the main loop switches to the solver.  On a grid
\* without rows solution_state is the empty list and marking the entrance,
\* solution_state[0][start_x] = 1, raises IndexError: the program ends there,
\* before solution_depth and current_state are assigned.
StartSolution ==
    /\ phase = "generation"
    /\ current_state = "None"
    /\ phase' = "solution"
    /\ solution_state' = init_solution.state
    /\ solution_level' = init_solution.level
    /\ IF GRID_HEIGHT > 0
       THEN /\ solution_depth' = init_solution.depth
            /\ current_state' = "solution_step"
       ELSE /\ solution_depth' = solution_depth
            /\ current_state' = "IndexError"
    /\ UNCHANGED <<grid, maze, screen, generators>>

\* solution_step that writes the depth into the type of every removed wall
SolutionStep_marks_walls ==
    /\ current_state = "solution_step"
    /\ LET r == solution_step(walls_by_index,
                              [state |-> solution_state, level |-> solution_level,
                               depth |-> solution_depth])
       IN  /\ solution_state' = r.so.state
           /\ solution_level' = r.so.level
           /\ solution_depth' = r.so.depth
           /\ screen' = [screen EXCEPT !.path = r.path]
           /\ current_state' = IF r.ret THEN "solution_step" ELSE "None"
    /\ walls_by_index' = [k \in DOMAIN walls_by_index |->
                             IF walls_by_index[k].clr
                             THEN [walls_by_index[k] EXCEPT !.typ = (solution_depth + 1) % 9]
                             ELSE walls_by_index[k]]
    /\ UNCHANGED <<grid, union_find, wall_queues, phase, generators>>

\* the main loop calls solution_step; a False result clears current_state
SolutionStep ==
    /\ current_state = "solution_step"
    /\ LET r == solution_step(walls_by_index,
                              [state |-> solution_state, level |-> solution_level,
                               depth |-> solution_depth])
       IN  /\ solution_state' = r.so.state
           /\ solution_level' = r.so.level
           /\ solution_depth' = r.so.depth
           /\ screen' = [screen EXCEPT !.path = r.path]
           /\ current_state' = IF r.ret THEN "solution_step" ELSE "None"
    /\ UNCHANGED <<grid, maze, phase, generators>>

Next == Step \/ StartSolution \/ SolutionStep

Spec == Init /\ [][Next]_vars

\* the same program on the wider grids
WideSpec == WideInit /\ [][Next]_vars

\* the same program in the 3x3 scenario
ScenarioSpec == ScenarioInit /\ [][Next]_vars

\* the same program started on any grid dimensions
GeometrySpec == GeometryInit /\ [][Next]_vars

\* generation and solving under the main loop, which keeps calling the
\* current function while there is one: weak fairness of the three actions.
\* For the two calls WF_vars(A) is written out as
\* []<>~ENABLED <<A>>_vars \/ []<><<A>>_vars, with ENABLED <<A>>_vars given by
\* the guard of A: every call changes the state (StepNeverIdle; solution_step
\* always increments solution_depth).
LiveSpec ==
    /\ Init /\ [][Next]_vars
    /\ ([]<>(current_state # "step") \/ []<><<Step>>_vars)
    /\ WF_vars(StartSolution)
    /\ ([]<>(current_state # "solution_step") \/ []<><<SolutionStep>>_vars)

(***************************************************************************)
(* Vocabulary of the properties.                                           *)
(***************************************************************************)
Cells == 0..(GRID_WIDTH * GRID_HEIGHT - 1)

\* the slots of walls_by_index that hold a wall
WallSlots == {k \in 0..(Len(walls_by_index) - 1) : walls_by_index[k + 1] # None}

\* the two cells a wall separates
CellOne(wall) == wall.y * GRID_WIDTH + wall.x
CellTwo(wall) == CellOne(wall) + (IF wall.dr THEN 1 ELSE GRID_WIDTH)

RemovedIn(walls) == {k \in 0..(Len(walls) - 1) : walls[k + 1] # None /\ walls[k + 1].clr}
Removed == RemovedIn(walls_by_index)

\* the root of a cell, read without changing the array; a cell the array does
\* not hold yet is a singleton
RootOf(uf, cell) == IF cell >= Len(uf) THEN cell ELSE FindRoot(uf, cell)

SameComponent(uf, a, b) == RootOf(uf, a) = RootOf(uf, b)

\* the cells joined to a cell of S by a path of the walls in the set open
RECURSIVE Reach(_, _, _)
Reach(walls, open, S) ==
    LET more == S \cup {c \in Cells : \E k \in open :
                          \/ CellOne(walls[k + 1]) \in S /\ c = CellTwo(walls[k + 1])
                          \/ CellTwo(walls[k + 1]) \in S /\ c = CellOne(walls[k + 1])}
    IN  IF more = S THEN S ELSE Reach(walls, open, more)

Joined(a, b) == b \in Reach(walls_by_index, Removed, {a})

\* step has returned False
GenerationDone == phase = "solution" \/ current_state = "None"

\* a reference to the wall of slot k in the bucket of its type
HasValidEntry(k) ==
    \E p \in 1..Len(wall_queues[walls_by_index[k + 1].typ]) :
        wall_queues[walls_by_index[k + 1].typ][p] = k

(***************************************************************************)
(* Generation.                                                             *)
(***************************************************************************)
\* a call of step that returns True takes an entry out of some bucket
StepNeverIdle ==
    current_state = "step" =>
        \A o \in step(gen) : o.out.ret => o.st.queues # wall_queues

DoneFullySpanning ==
    GenerationDone =>
        \A a, b \in Cells : SameComponent(union_find, a, b) /\ Joined(a, b)

W_DoneFullySpanning ==
    /\ GenerationDone
    /\ GRID_WIDTH = 2
    /\ GRID_HEIGHT = 2
    /\ SameComponent(union_find, 0, 3)

\* C3: once generation is done, exactly W * H - 1 walls are removed.
DoneOpensCellsMinusOne ==
    GenerationDone => Cardinality(Removed) = GRID_WIDTH * GRID_HEIGHT - 1

\* done on a 2 x 2 grid whose fourth wall is still standing
W_DoneOpensCellsMinusOne ==
    /\ GenerationDone
    /\ Cardinality(WallSlots) = 4
    /\ Cardinality(WallSlots \ Removed) = 1

\* C4: in every state the removed walls form a forest: no removed wall closes
\* a cycle, two cells share a union-find root exactly when removed walls join
\* them, and the removed walls number W * H minus the number of components.
RemovedWallsForest ==
    /\ \A k \in Removed :
          CellTwo(walls_by_index[k + 1]) \notin
              Reach(walls_by_index, Removed \ {k}, {CellOne(walls_by_index[k + 1])})
    /\ \A a \in Cells :
          {b \in Cells : SameComponent(union_find, a, b)} =
              Reach(walls_by_index, Removed, {a})
    /\ Cardinality(Removed) =
          GRID_WIDTH * GRID_HEIGHT - Cardinality({RootOf(union_find, c) : c \in Cells})

\* a partial maze: generation still running, two walls open, two components
W_RemovedWallsForest ==
    /\ current_state = "step"
    /\ Cardinality(Cells) = 4
    /\ Cardinality(Removed) = 2
    /\ Cardinality({RootOf(union_find, c) : c \in Cells}) = 2

\* the wall of slot k stands between two cells of one component
StandingConnected(k) ==
    /\ ~walls_by_index[k + 1].clr
    /\ SameComponent(union_find, CellOne(walls_by_index[k + 1]),
                     CellTwo(walls_by_index[k + 1]))

\* C5: a wall becomes removed only if its two cells were in different
\* components; try_wall on a standing wall between connected cells returns
\* False and changes no wall, no bucket and paints nothing.
OnlySeparatingWallsOpened ==
    /\ [](\A k \in WallSlots :
            StandingConnected(k) =>
                \A t \in try_wall(gen, k) :
                    /\ ~t.ret
                    /\ t.walls = walls_by_index
                    /\ t.queues = wall_queues
                    /\ t.painted = screen.walls)
    /\ [][\A k \in WallSlots :
            (walls_by_index'[k + 1].clr /\ ~walls_by_index[k + 1].clr) =>
                ~SameComponent(union_find, CellOne(walls_by_index[k + 1]),
                               CellTwo(walls_by_index[k + 1]))]_vars

\* a standing wall between connected cells has been popped from the bucket of
\* its type and turned down
W_OnlySeparatingWallsOpened ==
    \E k \in WallSlots : StandingConnected(k) /\ ~HasValidEntry(k)

\* the cells' partition is the same under two union-find arrays
SamePartition(uf1, uf2) ==
    \A a, b \in Cells : SameComponent(uf1, a, b) <=> SameComponent(uf2, a, b)

\* C6: a second try_wall on the same wall returns False and changes no
\* removed flag, no type, no bucket, no paint and no component; a removed
\* flag never goes back to false.
RemovalIdempotent ==
    /\ [](\A k \in WallSlots :
            \A t1 \in try_wall(gen, k) :
                \A t2 \in try_wall(t1, k) :
                    /\ ~t2.ret
                    /\ t2.walls = t1.walls
                    /\ t2.queues = t1.queues
                    /\ t2.painted = t1.painted
                    /\ SamePartition(t2.uf, t1.uf))
    /\ [][\A k \in WallSlots :
            walls_by_index[k + 1].clr => walls_by_index'[k + 1].clr]_vars

\* a removed wall whose type rose after its removal is popped from the bucket
\* of that type: step is about to call try_wall on it a second time
W_RemovalIdempotent ==
    \E k \in Removed :
        LET typ == walls_by_index[k + 1].typ
        IN  /\ typ > 0
            /\ Len(wall_queues[typ]) > 0
            /\ wall_queues[typ][Len(wall_queues[typ])] = k
            /\ \E t1 \in try_wall(gen, k) : ~t1.ret /\ t1.walls = walls_by_index

\* C7: no step lowers the stored type of any wall.
TypeNeverDecreases ==
    [][\A k \in WallSlots :
         walls_by_index'[k + 1].typ >= walls_by_index[k + 1].typ]_vars

\* a wall whose type has risen to the highest value one endpoint allows
W_TypeNeverDecreases ==
    \E k \in WallSlots : walls_by_index[k + 1].typ \in {2, 6}

(***************************************************************************)
(* The solver.                                                             *)
(***************************************************************************)
\* the depth recorded for cell c = <<x, y>>
Depth(c) == solution_state[c[2] + 1][c[1] + 1]

GridCells == {c \in (0..(GRID_WIDTH - 1)) \X (0..(GRID_HEIGHT - 1)) : TRUE}

Entrance == <<start_x, 0>>
Exit == <<finish_x, GRID_HEIGHT - 1>>

Min(a, b) == IF a <= b THEN a ELSE b

\* cells a and b are grid-adjacent and the wall between them is removed
OpenBetween(a, b) ==
    \/ /\ a[2] = b[2]
       /\ (a[1] - b[1]) \in {-1, 1}
       /\ get_wall(walls_by_index, Min(a[1], b[1]), a[2], TRUE) # None
       /\ get_wall(walls_by_index, Min(a[1], b[1]), a[2], TRUE).clr
    \/ /\ a[1] = b[1]
       /\ (a[2] - b[2]) \in {-1, 1}
       /\ get_wall(walls_by_index, a[1], Min(a[2], b[2]), FALSE) # None
       /\ get_wall(walls_by_index, a[1], Min(a[2], b[2]), FALSE).clr

\* number of removed walls on a shortest path from a cell of S to target,
\* S being the cells within d walls; -1 when there is no path
RECURSIVE Distance(_, _, _)
Distance(S, target, d) ==
    LET more == S \cup {c \in GridCells : \E b \in S : OpenBetween(b, c)}
    IN  IF target \in S THEN d
        ELSE IF more = S THEN -1
        ELSE Distance(more, target, d + 1)

\* C8: the backtraced path starts at the exit, ends at the entrance, and each
\* of its moves goes to a grid-adjacent cell through a removed wall.
BacktraceLinksExitToEntrance ==
    screen.path # <<>> =>
        /\ screen.path[1] = Exit
        /\ screen.path[Len(screen.path)] = Entrance
        /\ \A i \in 1..(Len(screen.path) - 1) :
              OpenBetween(screen.path[i], screen.path[i + 1])

\* a path that has to go round a standing wall between entrance and exit
W_BacktraceLinksExitToEntrance ==
    /\ Len(screen.path) = 4
    /\ start_x = finish_x

\* C9: the path has as many cells as the depth of the exit, the depth falls by
\* one at every move, and no cell is on the path twice.
BacktraceLengthIsExitDepth ==
    screen.path # <<>> =>
        /\ Len(screen.path) = Depth(Exit)
        /\ \A i \in 1..(Len(screen.path) - 1) :
              Depth(screen.path[i]) = Depth(screen.path[i + 1]) + 1
        /\ \A i, j \in 1..Len(screen.path) :
              screen.path[i] = screen.path[j] => i = j

W_BacktraceLengthIsExitDepth ==
    /\ Len(screen.path) = 3
    /\ Depth(Exit) = 3
    /\ start_x # finish_x

\* C10: during the solver run a cell of depth d > 0 is d - 1 removed walls
\* away from the entrance, the entrance has depth 1, every deeper cell has a
\* neighbour of the previous layer behind a removed wall, and a depth once
\* written is never changed.
DepthIsDistancePlusOne ==
    /\ [](phase = "solution" =>
            /\ Depth(Entrance) = 1
            /\ \A c \in GridCells :
                  Depth(c) # 0 =>
                      /\ Distance({Entrance}, c, 0) = Depth(c) - 1
                      /\ Depth(c) > 1 =>
                            \E b \in GridCells :
                                OpenBetween(b, c) /\ Depth(b) = Depth(c) - 1)
    /\ [][(phase = "solution" /\ phase' = "solution") =>
            \A y \in 1..GRID_HEIGHT : \A x \in 1..GRID_WIDTH :
                solution_state[y][x] # 0 =>
                    solution_state'[y][x] = solution_state[y][x]]_vars

\* a layer of two cells was expanded and the solver goes on
W_DepthIsDistancePlusOne ==
    /\ phase = "solution"
    /\ current_state = "solution_step"
    /\ solution_depth = 2
    /\ Len(solution_level) = 2

\* C11: on a finished maze the solver reaches the exit for every entrance and
\* exit column: the frontier never empties, and the solver never stops, while
\* the exit's depth is still 0; a stopped solver has traced a path.
SolverReachesExit ==
    phase = "solution" =>
        /\ (solution_level = <<>> \/ current_state = "None") => Depth(Exit) # 0
        /\ current_state = "None" => screen.path # <<>>

\* the solver has stopped on a two-row maze whose exit is in another column
W_SolverReachesExit ==
    /\ phase = "solution"
    /\ current_state = "None"
    /\ GRID_HEIGHT = 2
    /\ start_x # finish_x
    /\ Depth(Exit) # 0

\* the cells that have no depth in state table before and one in table after
NewCells(before, after) ==
    {c \in GridCells : before[c[2] + 1][c[1] + 1] = 0 /\ after[c[2] + 1][c[1] + 1] # 0}

\* the solver run from solver state so on the current wall table, calls
\* calls having been made: every call returns True exactly when the exit still
\* has depth 0 and the call gave a depth to some cell, and there are at most
\* GRID_WIDTH * GRID_HEIGHT calls
RECURSIVE StopsWhenItShould(_, _)
StopsWhenItShould(so, calls) ==
    LET r == solution_step(walls_by_index, so)
    IN  /\ r.ret = (/\ r.so.state[GRID_HEIGHT][finish_x + 1] = 0
                    /\ NewCells(so.state, r.so.state) # {})
        /\ calls + 1 <= GRID_WIDTH * GRID_HEIGHT
        /\ r.ret => StopsWhenItShould(r.so, calls + 1)

\* C12: solution_step returns True exactly while the exit's depth is still 0
\* and the layer just expanded discovered a new cell, and False as soon as the
\* exit has a depth or a layer discovers nothing, so that the solver stops
\* after at most W*H calls: on the solver run from every wall table the
\* generator reaches, and on every call the main loop makes.
SolverStopsExactly ==
    /\ [](/\ StopsWhenItShould(init_solution, 0)
          /\ phase = "solution" => solution_depth - 1 <= GRID_WIDTH * GRID_HEIGHT)
    /\ [][current_state = "solution_step" =>
            (current_state' = "solution_step") =
                (/\ solution_state'[GRID_HEIGHT][finish_x + 1] = 0
                 /\ NewCells(solution_state, solution_state') # {})]_vars

\* three calls were made on a maze of four cells, the last one reaching the exit
W_SolverStopsExactly ==
    /\ phase = "solution"
    /\ current_state = "None"
    /\ solution_depth = 4
    /\ Depth(Exit) = 4

(***************************************************************************)
(* Classification and neighbours.                                          *)
(***************************************************************************)
\* how many of three walls are removed, an absent wall counting as not removed
RemovedCount(w1, w2, w3) ==
    Cardinality({i \in 1..3 : <<w1, w2, w3>>[i] # None /\ <<w1, w2, w3>>[i].clr})

\* C13: at both endpoints of every wall, get_wall_end_type of the three walls
\* meeting there is 2 when two or more of them are removed, 1 when exactly one
\* of them is removed, whichever it is, and 0 when none is.
EndTypeCountsRemoved ==
    \A k \in WallSlots : \A e \in {0, 3} :
        walls_by_index[k + 1] # None =>
            LET w1 == get_neighbour(walls_by_index, walls_by_index[k + 1], e)
                w2 == get_neighbour(walls_by_index, walls_by_index[k + 1], e + 1)
                w3 == get_neighbour(walls_by_index, walls_by_index[k + 1], e + 2)
            IN  get_wall_end_type(w1, w2, w3) = Min(RemovedCount(w1, w2, w3), 2)

\* weighted_kruskal_maze.py: getWall and getNeighbour, wid and hei being the
\* grid's width and height
getWall(walls, x, y, dr) ==
    IF 0 <= x /\ x < GRID_WIDTH /\ 0 <= y /\ y < GRID_HEIGHT
    THEN walls[(y * GRID_WIDTH + x) * 2 + (IF dr THEN 0 ELSE 1) + 1]
    ELSE None

offsets ==
    [dr \in BOOLEAN |->
        IF dr
        THEN << <<-1, 0, FALSE>>, <<-1, 0, TRUE>>, <<0, -1, FALSE>>,
                <<0, 0, FALSE>>, <<0, 1, TRUE>>, <<1, 0, FALSE>> >>
        ELSE << <<-1, 0, TRUE>>, <<-1, 0, FALSE>>, <<-1, 1, TRUE>>,
                <<0, 0, TRUE>>, <<1, 0, FALSE>>, <<0, 1, TRUE>> >>]

getNeighbour(walls, wall, n) ==
    getWall(walls, wall.x + offsets[wall.dr][n + 1][1],
            wall.y + offsets[wall.dr][n + 1][2], offsets[wall.dr][n + 1][3])

\* the two endpoints of a wall as grid corners: a horizontal wall stands
\* between cells (x, y) and (x + 1, y), a vertical one between (x, y) and
\* (x, y + 1)
Ends(wall) ==
    IF wall.dr
    THEN << <<wall.x + 1, wall.y>>, <<wall.x + 1, wall.y + 1>> >>
    ELSE << <<wall.x, wall.y + 1>>, <<wall.x + 1, wall.y + 1>> >>

\* the other walls with an end at endpoint e (1 or 2) of the wall of slot k
AtEndpoint(k, e) ==
    {j \in WallSlots \ {k} :
        Ends(walls_by_index[k + 1])[e] \in
            {Ends(walls_by_index[j + 1])[1], Ends(walls_by_index[j + 1])[2]}}

\* the walls a lookup returns for the wall of slot k as neighbours lo..hi
Found(lookup(_, _, _), k, lo, hi) ==
    {WallRef(lookup(walls_by_index, walls_by_index[k + 1], n)) : n \in
        {i \in lo..hi : lookup(walls_by_index, walls_by_index[k + 1], i) # None}}

\* a lookup returns exactly the walls sharing an endpoint: neighbours 0-2 are
\* those at the first endpoint, 3-5 those at the second, neighbours 1 and 4
\* parallel to the wall and the others perpendicular; and it is symmetric
SharesEndpoints(lookup(_, _, _)) ==
    /\ \A k \in WallSlots :
          /\ Found(lookup, k, 0, 2) = AtEndpoint(k, 1)
          /\ Found(lookup, k, 3, 5) = AtEndpoint(k, 2)
          /\ \A n \in 0..5 :
                LET nb == lookup(walls_by_index, walls_by_index[k + 1], n)
                IN  nb # None => (nb.dr = walls_by_index[k + 1].dr) = (n \in {1, 4})
    /\ \A a, b \in WallSlots :
          (a \in Found(lookup, b, 0, 5)) = (b \in Found(lookup, a, 0, 5))

\* the lookup of maze_solver_bfs.py and animated_weighted_kruskal_maze.py
\* returns the walls that share an endpoint
NeighboursShareEndpoints == SharesEndpoints(get_neighbour)

\* C14: in every script that implements the lookup, the six neighbours of a
\* wall are exactly the walls sharing an endpoint with it, three at each
\* endpoint (two perpendicular, one parallel), and the relation is symmetric.
EveryLookupSharesEndpoints ==
    /\ SharesEndpoints(get_neighbour)
    /\ SharesEndpoints(getNeighbour)

\* the end type of the neighbours lo, lo + 1, lo + 2 of the wall of slot k of
\* wall table walls
EndType(walls, k, lo) ==
    get_wall_end_type(get_neighbour(walls, walls[k + 1], lo),
                      get_neighbour(walls, walls[k + 1], lo + 1),
                      get_neighbour(walls, walls[k + 1], lo + 2))

\* C15: every wall's stored type is an integer in 0..8 in every reachable
\* state, and a type that a step writes is t1 * 3 + t2, t1 being the end type
\* of neighbours 0, 1, 2 and t2 the end type of neighbours 3, 4, 5 in the
\* wall table the step leaves.
TypeIsTwoEndTypes ==
    /\ [](\A k \in WallSlots : walls_by_index[k + 1].typ \in 0..8)
    /\ [][\A k \in WallSlots :
            walls_by_index'[k + 1].typ # walls_by_index[k + 1].typ =>
                walls_by_index'[k + 1].typ =
                    EndType(walls_by_index', k, 0) * 3 + EndType(walls_by_index', k, 3)]_vars

\* a standing wall with two removed walls at each of its endpoints
W_TypeIsTwoEndTypes ==
    \E k \in WallSlots :
        /\ walls_by_index[k + 1].typ = 8
        /\ ~walls_by_index[k + 1].clr
        /\ EndType(walls_by_index, k, 0) = 2
        /\ EndType(walls_by_index, k, 3) = 2

\* list arr without its entry at position p (from 1)
RemoveAt(arr, p) == SubSeq(arr, 1, p - 1) \o SubSeq(arr, p + 1, Len(arr))

\* the classification of the wall of slot k in wall table walls
Classification(walls, k) == EndType(walls, k, 0) * 3 + EndType(walls, k, 3)

\* the generation state in which try_wall updates the neighbours of the wall
\* of slot k: the wall is marked removed, nothing else has changed
JustRemoved(k) ==
    [walls |-> [walls_by_index EXCEPT ![k + 1].clr = TRUE], queues |-> wall_queues]

\* update_wall_type on the wall of slot j in state m = [walls, queues] either
\* raises the type and inserts one reference at any position, or does nothing
UpdateAsSpecified(m, j) ==
    LET c == Classification(m.walls, j)
        out == update_wall_type(m, j)
    IN  IF c > m.walls[j + 1].typ
        THEN /\ \A o \in out :
                  /\ o.walls = [m.walls EXCEPT ![j + 1].typ = c]
                  /\ \A i \in 0..8 : i # c => o.queues[i] = m.queues[i]
                  /\ Len(o.queues[c]) = Len(m.queues[c]) + 1
                  /\ \E p \in 1..Len(o.queues[c]) :
                        /\ o.queues[c][p] = j
                        /\ RemoveAt(o.queues[c], p) = m.queues[c]
             /\ \A p \in 0..Len(m.queues[c]) :
                  \E o \in out : /\ o.queues[c][p + 1] = j
                                 /\ RemoveAt(o.queues[c], p + 1) = m.queues[c]
        ELSE out = {m}

\* C16: update_wall_type raises the stored type to a greater recomputed
\* classification and inserts exactly one reference to the wall into the
\* bucket of the new type, at any position 0..len, keeping the other buckets
\* and the bucket's previous entries; when the classification is not greater
\* it changes no type and no bucket. Checked for every wall in every reachable
\* state, and for every wall after any standing wall has been marked removed.
UpdateRaisesAndInserts ==
    \A j \in WallSlots :
        /\ UpdateAsSpecified([walls |-> walls_by_index, queues |-> wall_queues], j)
        /\ \A k \in WallSlots :
              ~walls_by_index[k + 1].clr => UpdateAsSpecified(JustRemoved(k), j)

\* removing wall k raises the classification of wall j to a type whose bucket
\* already holds an entry, so that the reference can go before or after it
W_UpdateRaisesAndInserts ==
    \E j, k \in WallSlots :
        /\ ~walls_by_index[k + 1].clr
        /\ Classification(JustRemoved(k).walls, j) > walls_by_index[j + 1].typ
        /\ Len(wall_queues[Classification(JustRemoved(k).walls, j)]) = 1

(***************************************************************************)
(* Union-find.                                                             *)
(***************************************************************************)
\* the size stored at the root of a cell; a cell the array does not hold yet
\* is a singleton
StoredSize(uf, cell) == IF cell >= Len(uf) THEN 1 ELSE -uf[RootOf(uf, cell) + 1]

\* union(a, b) on array uf merges the two trees under the larger tree's root
UnionAsSpecified(uf, a, b) ==
    LET r == union(uf, a, b)
        larger == IF StoredSize(uf, a) > StoredSize(uf, b)
                  THEN RootOf(uf, a) ELSE RootOf(uf, b)
    IN  IF SameComponent(uf, a, b)
        THEN /\ ~r.ret
             /\ \A c \in Cells : /\ RootOf(r.uf, c) = RootOf(uf, c)
                                 /\ StoredSize(r.uf, c) = StoredSize(uf, c)
        ELSE /\ r.ret
             /\ r.uf[larger + 1] = -(StoredSize(uf, a) + StoredSize(uf, b))
             /\ \A c \in Cells :
                   RootOf(r.uf, c) =
                       IF SameComponent(uf, c, a) \/ SameComponent(uf, c, b)
                       THEN larger
                       ELSE RootOf(uf, c)
             /\ \A c \in Cells :
                   ~(SameComponent(uf, c, a) \/ SameComponent(uf, c, b)) =>
                       StoredSize(r.uf, c) = StoredSize(uf, c)

\* C17: union(a, b) returns False and leaves the partition unchanged when a
\* and b have the same root; otherwise it returns True, the root of the larger
\* tree (on equal sizes the root of b) is the root of the merged tree, whose
\* stored size is the sum of the two sizes, and no other tree changes: for
\* every pair of cells on every union-find array the generator builds.
UnionMergesBySize ==
    phase = "generation" =>
        \A a, b \in Cells : UnionAsSpecified(union_find, a, b)

\* a tree of two cells and two singletons: union can be given the larger tree
\* first, the larger tree second, and two trees of the same size
W_UnionMergesBySize ==
    /\ phase = "generation"
    /\ \E a, b, c \in Cells :
          /\ StoredSize(union_find, a) = 2
          /\ StoredSize(union_find, b) = 1
          /\ StoredSize(union_find, c) = 1
          /\ b # c
          /\ RootOf(union(union_find, a, b).uf, b) = RootOf(union_find, a)
          /\ RootOf(union(union_find, b, a).uf, b) = RootOf(union_find, a)
          /\ RootOf(union(union_find, b, c).uf, b) = c

\* the cells met when following parent entries from cell, cell included
RECURSIVE Path(_, _)
Path(uf, cell) ==
    IF uf[cell + 1] < 0 THEN {cell} ELSE {cell} \cup Path(uf, uf[cell + 1])

\* array uf extended with -1 entries up to index cell
Extended(uf, cell) ==
    [k \in 1..(IF cell >= Len(uf) THEN cell + 1 ELSE Len(uf)) |->
        IF k <= Len(uf) THEN uf[k] ELSE -1]

\* ufind(cell) on array uf returns the root, compresses the path, grows the array
UfindAsSpecified(uf, cell) ==
    LET r == ufind(uf, cell)
        before == Extended(uf, cell)
    IN  /\ r.root \in Path(before, cell)
        /\ before[r.root + 1] < 0
        /\ \A n \in Path(before, cell) \ {r.root} : r.uf[n + 1] = r.root
        /\ Len(r.uf) = Len(before)
        /\ \A c \in 0..(Len(before) - 1) :
              /\ Path(r.uf, c) \cap {d \in 0..(Len(before) - 1) : r.uf[d + 1] < 0} =
                 Path(before, c) \cap {d \in 0..(Len(before) - 1) : before[d + 1] < 0}
              /\ before[c + 1] < 0 => r.uf[c + 1] = before[c + 1]
              /\ c \notin Path(before, cell) => r.uf[c + 1] = before[c + 1]

\* C18: ufind(cell) returns the root of the tree containing cell; afterwards
\* every node that was on the path from cell to the root points directly at
\* the root; every cell keeps its root and every root its stored size; and a
\* cell index at or beyond the array length first extends the array with -1
\* entries up to that index: for every cell on every union-find array the
\* generator builds.
UfindCompressesPath ==
    phase = "generation" =>
        \A cell \in Cells : UfindAsSpecified(union_find, cell)

\* a cell whose parent is not a root: ufind moves it under the root
W_UfindCompressesPath ==
    /\ phase = "generation"
    /\ \E cell \in 0..(Len(union_find) - 1) :
          /\ Cardinality(Path(union_find, cell)) = 3
          /\ ufind(union_find, cell).uf[cell + 1] = ufind(union_find, cell).root
          /\ union_find[cell + 1] # ufind(union_find, cell).root

\* the root reached from cell in at most moves moves along parent entries,
\* -1 when there is none
RECURSIVE RootWithin(_, _, _)
RootWithin(uf, cell, moves) ==
    IF uf[cell + 1] < 0 THEN cell
    ELSE IF moves = 0 THEN -1
    ELSE RootWithin(uf, uf[cell + 1], moves - 1)

\* the sum of the sizes stored at the roots among the first k entries
RECURSIVE SumOfSizes(_, _)
SumOfSizes(uf, k) ==
    IF k = 0 THEN 0
    ELSE (IF uf[k] < 0 THEN -uf[k] ELSE 0) + SumOfSizes(uf, k - 1)

\* array uf is a forest of trees that store their sizes at their roots
WellFormed(uf) ==
    LET index == 0..(Len(uf) - 1)
    IN  /\ \A c \in index : uf[c + 1] < 0 \/ (uf[c + 1] \in index /\ uf[c + 1] # c)
        /\ \A c \in index : RootWithin(uf, c, Len(uf)) # -1
        /\ \A c \in index :
              uf[c + 1] < 0 =>
                  /\ -uf[c + 1] >= 1
                  /\ -uf[c + 1] =
                        Cardinality({d \in index : RootWithin(uf, d, Len(uf)) = c})
        /\ SumOfSizes(uf, Len(uf)) = Len(uf)

\* C19: in every reachable state of the union-find array each entry is either
\* negative, its magnitude being the number of cells of the tree rooted there
\* (at least 1), or the valid index of another cell; following parent entries
\* from any cell reaches a root (no cycle); and the root sizes sum to the
\* array length. Checked of the array between steps and of the array every
\* ufind and every union would leave.
UnionFindWellFormed ==
    /\ WellFormed(union_find)
    /\ phase = "generation" =>
          /\ \A c \in Cells : WellFormed(ufind(union_find, c).uf)
          /\ \A a, b \in Cells : WellFormed(union(union_find, a, b).uf)

\* all four cells in the array, a tree of three cells and a singleton
W_UnionFindWellFormed ==
    /\ Len(union_find) = 4
    /\ \E c, d \in 0..3 : union_find[c + 1] = -3 /\ union_find[d + 1] = -1

(***************************************************************************)
(* Wall lookup.                                                            *)
(***************************************************************************)
\* C20: get_wall(x, y, orientation) returns no wall when (x, y) lies outside
\* the grid, when orientation is horizontal and x = W - 1, or when orientation
\* is vertical and y = H - 1; in every other case it returns the wall whose x,
\* y and orientation are the arguments, the one stored at slot
\* (y * W + x) * 2 + 0 or 1: for every position from one cell outside the grid
\* on each side.
GetWallByPosition ==
    \A x \in -1..GRID_WIDTH : \A y \in -1..GRID_HEIGHT : \A o \in BOOLEAN :
        LET w == get_wall(walls_by_index, x, y, o)
        IN  IF \/ x < 0 \/ x >= GRID_WIDTH \/ y < 0 \/ y >= GRID_HEIGHT
               \/ o /\ x = GRID_WIDTH - 1
               \/ ~o /\ y = GRID_HEIGHT - 1
            THEN w = None
            ELSE /\ w # None
                 /\ w.x = x /\ w.y = y /\ w.dr = o
                 /\ w = walls_by_index[(y * GRID_WIDTH + x) * 2 + (IF o THEN 0 ELSE 1) + 1]

\* a grid with inner walls and both kinds of boundary, generation under way:
\* a removed wall is returned with its flag, the boundary lookups return none
W_GetWallByPosition ==
    /\ GRID_WIDTH = 2
    /\ GRID_HEIGHT = 2
    /\ get_wall(walls_by_index, 0, 0, TRUE).clr
    /\ get_wall(walls_by_index, 0, 0, TRUE).x = 0
    /\ get_wall(walls_by_index, 1, 0, FALSE).dr = FALSE
    /\ get_wall(walls_by_index, 1, 0, FALSE).x = 1
    /\ get_wall(walls_by_index, 1, 0, TRUE) = None
    /\ get_wall(walls_by_index, 0, 1, FALSE) = None
    /\ get_wall(walls_by_index, 2, 0, FALSE) = None

(***************************************************************************)
(* Initialisation and the main loop.                                       *)
(***************************************************************************)
\* the state init leaves according to C21
InitAsSpecified ==
    /\ Len(walls_by_index) = 2 * GRID_WIDTH * GRID_HEIGHT
    /\ \A x \in 0..(GRID_WIDTH - 1) : \A y \in 0..(GRID_HEIGHT - 1) :
          LET horizontal == walls_by_index[(y * GRID_WIDTH + x) * 2 + 1]
              vertical == walls_by_index[(y * GRID_WIDTH + x) * 2 + 2]
          IN  /\ (horizontal # None) = (x < GRID_WIDTH - 1)
              /\ horizontal # None =>
                    horizontal.x = x /\ horizontal.y = y /\ horizontal.dr
              /\ (vertical # None) = (y < GRID_HEIGHT - 1)
              /\ vertical # None =>
                    vertical.x = x /\ vertical.y = y /\ ~vertical.dr
    /\ Cardinality(WallSlots) =
          (GRID_WIDTH - 1) * GRID_HEIGHT + GRID_WIDTH * (GRID_HEIGHT - 1)
    /\ \A k \in WallSlots :
          /\ walls_by_index[k + 1].typ = 0
          /\ ~walls_by_index[k + 1].clr
          /\ Cardinality({p \in 1..Len(wall_queues[0]) : wall_queues[0][p] = k}) = 1
    /\ \A p \in 1..Len(wall_queues[0]) : wall_queues[0][p] \in WallSlots
    /\ \A i \in 1..8 : wall_queues[i] = <<>>
    /\ union_find = <<>>
    /\ start_x \in 0..(GRID_WIDTH - 1)
    /\ finish_x \in 0..(GRID_WIDTH - 1)

\* C21: after init a horizontal wall exists at (x, y) iff x < W - 1 and a
\* vertical wall iff y < H - 1, (W-1)*H + W*(H-1) walls in a table of 2*W*H
\* slots; every wall has type 0, is not removed and occurs exactly once in
\* bucket 0; buckets 1..8 are empty; the union-find array is empty; entrance
\* and exit column are in [0, W). No later step moves a wall or a column.
InitLeavesFreshMaze ==
    /\ InitAsSpecified
    /\ [][/\ UNCHANGED grid
          /\ Len(walls_by_index') = Len(walls_by_index)
          /\ \A k \in 1..Len(walls_by_index) :
                /\ walls_by_index'[k].x = walls_by_index[k].x
                /\ walls_by_index'[k].y = walls_by_index[k].y
                /\ walls_by_index'[k].dr = walls_by_index[k].dr]_vars

\* the state init leaves on the 2x2 grid when the wall created last was
\* inserted in front of the others and the exit is not below the entrance
W_InitLeavesFreshMaze ==
    /\ InitAsSpecified
    /\ GRID_WIDTH = 2
    /\ GRID_HEIGHT = 2
    /\ wall_queues[0][1] = 4
    /\ start_x # finish_x

\* C22: the solver is started only after generation has reached Done:
\* init_solution runs once, and only when step has returned False (no bucket
\* holds an entry); solution_step never runs while generation is running (the
\* solver's variables and the path do not change); step never runs after the
\* solver started (the maze does not change); and after solution_step has
\* returned False nothing runs any more.
SolverOnlyAfterDone ==
    /\ [](/\ phase = "generation" => current_state \in {"step", "None"}
          /\ phase = "solution" => current_state \in {"solution_step", "None"})
    /\ [][/\ phase' # phase =>
                /\ phase = "generation" /\ phase' = "solution"
                /\ current_state = "None"
                /\ \A i \in 0..8 : wall_queues[i] = <<>>
                /\ solution_depth' = 1
                /\ current_state' = "solution_step"
          /\ phase' = "generation" => UNCHANGED <<solver, phase>> /\ screen'.path = screen.path
          /\ phase' = phase => (solution_depth' = solution_depth \/ current_state = "solution_step")
          /\ phase = "solution" => UNCHANGED <<maze, phase>> /\ screen'.walls = screen.walls
          /\ (phase = "solution" /\ current_state = "None") => UNCHANGED vars]_vars

\* the solver has just been started on a finished maze of four cells
W_SolverOnlyAfterDone ==
    /\ phase = "solution"
    /\ current_state = "solution_step"
    /\ solution_depth = 1
    /\ Cardinality(Removed) = 3
    /\ \A i \in 0..8 : wall_queues[i] = <<>>

\* C23: on the 3x3 grid init creates 12 walls, the completed maze has exactly
\* 8 of them removed, and with the entrance at column 0 of the top row and the
\* exit at column 2 of the bottom row the solver stops with a path of 5 to 9
\* cells, for every sequence of random choices explored.
ScenarioThreeByThree ==
    /\ GRID_WIDTH = 3 /\ GRID_HEIGHT = 3 /\ start_x = 0 /\ finish_x = 2
    /\ Cardinality(WallSlots) = 12
    /\ GenerationDone => Cardinality(Removed) = 8
    /\ (phase = "solution" /\ current_state = "None") => screen.path # <<>>
    /\ screen.path # <<>> => Len(screen.path) \in 5..9

\* a finished 3x3 maze solved with a path that is not a shortest grid route
W_ScenarioThreeByThree ==
    /\ phase = "solution"
    /\ current_state = "None"
    /\ Cardinality(Removed) = 8
    /\ Len(screen.path) = 7

(***************************************************************************)
(* The random draws.                                                       *)
(***************************************************************************)
\* how often wall reference k occurs in the list arr
Occurrences(arr, k) == Cardinality({p \in 1..Len(arr) : arr[p] = k})

\* (len + 1) * (len + 2) * ... * (len + n): the position draws of n insertions
\* into a list of len entries
RECURSIVE PositionDraws(_, _)
PositionDraws(len, n) ==
    IF n = 0 THEN 1 ELSE (len + n) * PositionDraws(len, n - 1)

\* the walls whose type outcome o of a step has raised to t
RaisedTo(o, t) ==
    {k \in WallSlots : /\ o.st.walls[k + 1].typ = t
                       /\ walls_by_index[k + 1].typ < t}

\* the sequences of position draws behind the insertions of outcome o, over
\* the buckets t..8
RECURSIVE InsertionDraws(_, _)
InsertionDraws(o, t) ==
    IF t > 8 THEN 1
    ELSE PositionDraws(Len(o.st.queues[t]) - Cardinality(RaisedTo(o, t)),
                       Cardinality(RaisedTo(o, t)))
         * InsertionDraws(o, t + 1)

\* C24: generation is deterministic in its random draws. Once the
\* bucket-selection draw has chosen a bucket, all outcomes of step pop the same
\* wall, return the same result, and leave the same union-find array, wall
\* table and paint and the same entries in every bucket; they differ in the
\* positions of the inserted references only, and there are exactly as many
\* outcomes as sequences of position draws. init leaves as many bucket orders
\* as there are sequences of its position draws.
DrawsDetermineStep ==
    /\ union_find = <<>> =>
          Cardinality(InitQueue(InitWalls(GRID_WIDTH, GRID_HEIGHT),
                                2 * GRID_WIDTH * GRID_HEIGHT))
             = PositionDraws(0, Cardinality(WallSlots))
    /\ phase = "generation" =>
          \A qi \in {i \in 0..8 : wall_queues[i] # <<>>} :
              \A out \in {step_queue(gen, qi)} : \A o1 \in {CHOOSE o \in out : TRUE} :
                  /\ \A o2 \in out :
                        /\ o1.out = o2.out
                        /\ o1.st.uf = o2.st.uf
                        /\ o1.st.walls = o2.st.walls
                        /\ o1.st.painted = o2.st.painted
                        /\ \A b \in 0..8 :
                              /\ Len(o1.st.queues[b]) = Len(o2.st.queues[b])
                              /\ \A p \in 1..Len(o1.st.queues[b]) :
                                    Occurrences(o1.st.queues[b], o1.st.queues[b][p]) =
                                        Occurrences(o2.st.queues[b], o1.st.queues[b][p])
                  /\ Cardinality(out) = InsertionDraws(o1, 0)

\* a step that inserts two references, with more than one sequence of
\* position draws
W_DrawsDetermineStep ==
    /\ phase = "generation"
    /\ \E qi \in {i \in 0..8 : wall_queues[i] # <<>>} :
          \E o \in step_queue(gen, qi) :
              /\ o.out.opened
              /\ Cardinality(UNION {RaisedTo(o, t) : t \in 0..8}) >= 2
              /\ Cardinality(step_queue(gen, qi)) >= 2

\* the exceptions init can end with
InitErrors == {"ValueError", "ZeroDivisionError"}

\* C25: on a grid whose width or height is zero or negative init never
\* completes: the program has ended with an error raised by init, so no
\* generation step and no solver step runs on such a grid.
InvalidGeometryRejected ==
    (GRID_WIDTH <= 0 \/ GRID_HEIGHT <= 0) => current_state \in InitErrors

AllBucketsEmpty(queues) == \A i \in 0..8 : queues[i] = <<>>

\* C26: step returns False exactly when all nine buckets are empty; then it
\* changes nothing, and a further call returns False again and changes nothing.
\* The main loop's call of step (the only action taken while current_state is
\* step) clears current_state exactly in that case and leaves the maze and the
\* screen as they were.
StepDoneIffEmpty ==
    /\ [](IF AllBucketsEmpty(wall_queues)
          THEN /\ step(gen) = {[st |-> gen, out |-> NoCall]}
               /\ \A o \in step(gen) : step(o.st) = {o}
          ELSE \A o \in step(gen) : o.out.ret)
    /\ [][current_state = "step" =>
            /\ current_state' = "None" <=> AllBucketsEmpty(wall_queues)
            /\ current_state' = "None" => UNCHANGED <<maze, screen>>]_vars

\* step has returned False on a grid with walls, all of them consumed
W_StepDoneIffEmpty ==
    /\ phase = "generation"
    /\ current_state = "None"
    /\ Cardinality(WallSlots) >= 4
    /\ AllBucketsEmpty(wall_queues)
    /\ step(gen) = {[st |-> gen, out |-> NoCall]}

\* the buckets after the last entry of bucket qi, if any, was popped
PoppedLast(queues, qi) ==
    IF queues[qi] = <<>> THEN queues
    ELSE [queues EXCEPT ![qi] = SubSeq(@, 1, Len(@) - 1)]

\* the wall the last entry of bucket qi refers to
LastOf(qi) == walls_by_index[wall_queues[qi][Len(wall_queues[qi])] + 1]

\* bucket qi is empty, or its last entry is stale, or it refers to a removed wall
NothingToOpen(qi) ==
    \/ wall_queues[qi] = <<>>
    \/ LastOf(qi).typ # qi
    \/ LastOf(qi).clr

\* C27: when the selected bucket is empty, or the popped wall's type differs
\* from the bucket index, or the popped wall is already removed, step opens
\* no wall, returns True and changes nothing but the selected bucket, which
\* loses its last entry: union-find array, wall table (types and removed
\* flags), the other entries of every bucket and the screen are unchanged.
NoOpenLeavesOnlyThePop ==
    phase = "generation" =>
        \A qi \in {i \in 0..8 : NothingToOpen(i)} :
            step_queue(gen, qi) =
                {[st |-> [gen EXCEPT !.queues = PoppedLast(wall_queues, qi)],
                  out |-> [ret |-> TRUE,
                           popped |-> IF wall_queues[qi] = <<>> THEN NoCall.popped
                                      ELSE wall_queues[qi][Len(wall_queues[qi])],
                           tried |-> wall_queues[qi] # <<>> /\ LastOf(qi).typ = qi,
                           opened |-> FALSE]]}

\* a state in which the three cases are present at once: an empty bucket, a
\* bucket ending in a stale entry, and a bucket ending in a valid-typed entry
\* of a removed wall
W_NoOpenLeavesOnlyThePop ==
    /\ current_state = "step"
    /\ \E qi \in 0..8 : wall_queues[qi] = <<>>
    /\ \E qi \in 0..8 : wall_queues[qi] # <<>> /\ LastOf(qi).typ # qi
    /\ \E qi \in 0..8 : /\ wall_queues[qi] # <<>>
                        /\ LastOf(qi).typ = qi
                        /\ LastOf(qi).clr

\* the existing neighbours of the wall of slot k
Neighbours(k) == Found(get_neighbour, k, 0, 5)

\* the type update_wall_type leaves on the wall of slot j once the wall of
\* slot k is marked removed
TypeAfter(k, j) ==
    LET nt == new_type(JustRemoved(k).walls, walls_by_index[j + 1])
    IN  IF nt > walls_by_index[j + 1].typ THEN nt ELSE walls_by_index[j + 1].typ

\* outcome o of step on bucket qi opened the popped wall k and nothing else:
\* one more paint of k's region, every existing neighbour updated, one new
\* reference for each neighbour whose type was raised
OpenedOnly(o, qi, k) ==
    /\ ~walls_by_index[k + 1].clr
    /\ walls_by_index[k + 1].typ = qi
    /\ o.st.walls[k + 1] = [walls_by_index[k + 1] EXCEPT !.clr = TRUE]
    /\ o.st.painted = [screen.walls EXCEPT ![k + 1] = @ + 1]
    /\ \A j \in WallSlots \ {k} :
          /\ o.st.walls[j + 1].clr = walls_by_index[j + 1].clr
          /\ o.st.walls[j + 1].typ =
                IF j \in Neighbours(k) THEN TypeAfter(k, j) ELSE walls_by_index[j + 1].typ
          /\ \A b \in 0..8 :
                Occurrences(o.st.queues[b], j) =
                    Occurrences(PoppedLast(wall_queues, qi)[b], j)
                    + (IF /\ j \in Neighbours(k)
                          /\ b = TypeAfter(k, j)
                          /\ b > walls_by_index[j + 1].typ
                       THEN 1 ELSE 0)
    /\ \A b \in 0..8 :
          Occurrences(o.st.queues[b], k) = Occurrences(PoppedLast(wall_queues, qi)[b], k)

\* C28: a call of step changes the removed flag of at most one wall, the
\* popped one; a wall that becomes removed has its region painted exactly
\* once, and a call that opens nothing paints nothing; after a removal
\* update_wall_type has been applied to every existing neighbour of the wall.
StepOpensOnlyThePopped ==
    /\ \A k \in WallSlots : screen.walls[k + 1] = (IF walls_by_index[k + 1].clr THEN 1 ELSE 0)
    /\ phase = "generation" =>
          \A qi \in {i \in 0..8 : wall_queues[i] # <<>>} :
              \A o \in step_queue(gen, qi) :
                  /\ o.out.popped = wall_queues[qi][Len(wall_queues[qi])]
                  /\ IF o.out.opened
                     THEN OpenedOnly(o, qi, o.out.popped)
                     ELSE /\ o.st.painted = screen.walls
                          /\ o.st.walls = walls_by_index

\* a bucket ends in a standing wall with six existing neighbours, some of
\* which are raised and some of which are not when step opens it
W_StepOpensOnlyThePopped ==
    /\ current_state = "step"
    /\ \E qi \in {i \in 0..8 : wall_queues[i] # <<>>} :
          \E o \in step_queue(gen, qi) :
              /\ o.out.opened
              /\ Cardinality(Neighbours(o.out.popped)) = 6
              /\ \E j \in Neighbours(o.out.popped) :
                    o.st.walls[j + 1].typ > walls_by_index[j + 1].typ
              /\ \E j \in Neighbours(o.out.popped) :
                    o.st.walls[j + 1].typ = walls_by_index[j + 1].typ

\* the number of buckets that hold a reference to the wall of slot k
RefsTo(k) == Cardinality({b \in 0..8 : Occurrences(wall_queues[b], k) > 0})

\* C29: no bucket holds two references to the same wall; a wall's references
\* lie in buckets up to its type, so at most the one in the bucket of its type
\* is valid and the others are stale; a stale entry that is popped is dropped
\* without try_wall.  A step adds a reference to a wall only together with a
\* raise of its type, into the bucket of the new type: with the one insertion
\* of init and types in 0..8 that never go down, a wall is inserted at most 9
\* times.
OneValidEntryPerWall ==
    /\ [](\A k \in WallSlots :
             /\ walls_by_index[k + 1].typ \in 0..8
             /\ \A b \in 0..8 :
                   /\ Occurrences(wall_queues[b], k) <= 1
                   /\ Occurrences(wall_queues[b], k) = 1 => b <= walls_by_index[k + 1].typ)
    /\ [](\A qi \in {i \in 0..8 : wall_queues[i] # <<>>} :
             LastOf(qi).typ # qi =>
                 \A o \in step_queue(gen, qi) :
                     /\ ~o.out.tried
                     /\ ~o.out.opened
                     /\ o.st.walls = walls_by_index)
    /\ [][\A k \in WallSlots : \A b \in 0..8 :
             Occurrences(wall_queues'[b], k) > Occurrences(wall_queues[b], k) =>
                 /\ b = walls_by_index'[k + 1].typ
                 /\ b > walls_by_index[k + 1].typ]_vars

\* a wall with a valid entry and two stale ones, one of them next to be popped
W_OneValidEntryPerWall ==
    /\ current_state = "step"
    /\ \E k \in WallSlots :
          /\ HasValidEntry(k)
          /\ RefsTo(k) >= 3
          /\ \E qi \in 0..8 : /\ wall_queues[qi] # <<>>
                              /\ wall_queues[qi][Len(wall_queues[qi])] = k
                              /\ qi < walls_by_index[k + 1].typ

\* the total number of wall references held in the nine buckets
RECURSIVE TotalRefs(_, _)
TotalRefs(queues, n) ==
    IF n = 0 THEN 0 ELSE TotalRefs(queues, n - 1) + Len(queues[n - 1])

\* how far the types of the walls of slots 0..n-1 are below the highest type
RECURSIVE RaisesLeft(_, _)
RaisesLeft(walls, n) ==
    IF n = 0 THEN 0
    ELSE RaisesLeft(walls, n - 1) + (IF walls[n] = None THEN 0 ELSE 8 - walls[n].typ)

\* the references in the buckets plus the raises the walls can still get
Measure(walls, queues) == TotalRefs(queues, 9) + RaisesLeft(walls, Len(walls))

\* C30 as stated: across every generation step the total number of wall
\* references in the nine buckets decreases, or stays the same when the step
\* changes nothing; it never increases.
RefsNeverIncrease ==
    [][current_state = "step" =>
          \/ TotalRefs(wall_queues', 9) < TotalRefs(wall_queues, 9)
          \/ /\ TotalRefs(wall_queues', 9) = TotalRefs(wall_queues, 9)
             /\ UNCHANGED <<maze, screen>>]_vars

\* C30, amended: a step that pops an entry removes that one reference and adds
\* one reference for every wall whose type it raises, so the number of
\* references can grow, by at most five; the number of references plus the
\* raises still possible, the sum over the walls of 8 - type, strictly
\* decreases at every step that pops an entry and is unchanged by a step on
\* an empty bucket and by the step that returns False; it never increases.
MeasureDecreases ==
    /\ [](phase = "generation" =>
             \A qi \in 0..8 : \A o \in step_queue(gen, qi) :
                 IF wall_queues[qi] = <<>>
                 THEN o.st = gen
                 ELSE /\ Measure(o.st.walls, o.st.queues)
                            < Measure(walls_by_index, wall_queues)
                      /\ TotalRefs(o.st.queues, 9) <= TotalRefs(wall_queues, 9) + 5)
    /\ [][current_state = "step" =>
             IF current_state' = "step"
             THEN Measure(walls_by_index', wall_queues')
                      < Measure(walls_by_index, wall_queues)
             ELSE UNCHANGED <<maze, screen>>]_vars

\* a step after which the buckets hold five references more than before: the
\* opened wall has six neighbours and the type of each of them is raised
W_MeasureDecreases ==
    /\ current_state = "step"
    /\ \E qi \in {i \in 0..8 : wall_queues[i] # <<>>} :
          \E o \in step_queue(gen, qi) :
              /\ o.out.opened
              /\ TotalRefs(o.st.queues, 9) = TotalRefs(wall_queues, 9) + 5
              /\ Measure(o.st.walls, o.st.queues) < Measure(walls_by_index, wall_queues)

\* C31: the solver only reads the maze: from the call of init_solution on, no
\* wall's removed flag or type, no bucket, the union-find array and the
\* entrance and exit columns never change.
SolverOnlyReads ==
    [][phase' = "solution" =>
          UNCHANGED <<walls_by_index, wall_queues, union_find, start_x, finish_x>>]_vars

\* the solver has run to its end on a maze with removed walls
W_SolverOnlyReads ==
    /\ phase = "solution"
    /\ current_state = "None"
    /\ solution_depth >= 3
    /\ Cardinality(Removed) >= 3
    /\ screen.path # <<>>

\* the lists push_rand and pushrand leave agree as operations on a bucket:
\* every result is arr with item at one index and the other entries kept once
\* each (the same multiset plus the item), and every index 0..len is possible
AddsOneAnywhere(results, arr, item) ==
    \A rs \in {results} :
        /\ \A r \in rs :
              /\ Len(r) = Len(arr) + 1
              /\ Occurrences(r, item) = Occurrences(arr, item) + 1
              /\ \A p \in 1..Len(arr) : Occurrences(r, arr[p]) >= Occurrences(arr, arr[p])
        /\ {pos \in 0..Len(arr) : \E r \in rs : r[pos + 1] = item} = 0..Len(arr)

\* C32: on every bucket of every reachable state and for every wall, push_rand
\* (insert at a random index) and pushrand (append, then swap with a random
\* slot) each add exactly one reference to the item, keep every earlier entry,
\* and can put the item at any index from 0 to the old length.
InsertionHelpersAgree ==
    \A arr \in {wall_queues[b] : b \in 0..8} : \A k \in WallSlots :
        /\ AddsOneAnywhere(push_rand(arr, k), arr, k)
        /\ AddsOneAnywhere(pushrand(arr, k), arr, k)

\* a bucket of three entries on which the two helpers leave different lists
W_InsertionHelpersAgree ==
    \E b \in 0..8 : \E k \in WallSlots :
        /\ Len(wall_queues[b]) >= 3
        /\ Occurrences(wall_queues[b], k) = 0
        /\ push_rand(wall_queues[b], k) # pushrand(wall_queues[b], k)
        /\ Cardinality(pushrand(wall_queues[b], k)) = Len(wall_queues[b]) + 1

\* C33: in every reachable state the stored type of every wall, removed or
\* not, is t1 * 3 + t2 as update_wall_type computes it from the removed flags
\* its six neighbours have now: no type lags behind the classification.
TypeIsCurrentClassification ==
    \A k \in WallSlots :
        walls_by_index[k + 1].typ = new_type(walls_by_index, walls_by_index[k + 1])

\* a removed wall whose type was raised after its removal, beside a standing
\* wall of another non-zero type
W_TypeIsCurrentClassification ==
    /\ phase = "generation"
    /\ \E k \in Removed : \E qi \in 1..8 :
          /\ walls_by_index[k + 1].typ = qi
          /\ Occurrences(wall_queues[qi], k) = 1
    /\ \E j, k \in WallSlots \ Removed :
          /\ walls_by_index[j + 1].typ > walls_by_index[k + 1].typ
          /\ walls_by_index[k + 1].typ > 0

\* the wall of slot k stands between two different union-find components
Candidate(k) ==
    /\ ~walls_by_index[k + 1].clr
    /\ ~SameComponent(union_find, CellOne(walls_by_index[k + 1]),
                      CellTwo(walls_by_index[k + 1]))

\* C34: no candidate wall is lost: in every reachable generation state every
\* standing wall whose two cells are in different union-find components has a
\* reference in the bucket of its current type.
NoCandidateLost ==
    phase = "generation" => \A k \in WallSlots : Candidate(k) => HasValidEntry(k)

\* a candidate whose type was raised, with a stale reference left behind, next
\* to a standing wall that is no candidate any more and has no valid entry
W_NoCandidateLost ==
    /\ current_state = "step"
    /\ \E k \in WallSlots :
          /\ Candidate(k)
          /\ walls_by_index[k + 1].typ > 0
          /\ HasValidEntry(k)
          /\ RefsTo(k) >= 2
    /\ \E j \in WallSlots \ Removed : ~Candidate(j) /\ ~HasValidEntry(j)

\* the weighted walk ran through all nine buckets without a break: only a
\* threshold of total_weight or more does that
RunsOut(queues, random_threshold) == random_threshold >= total_weight(queues)

\* C35: in exact arithmetic, with a non-empty bucket the buckets the weighted
\* walk stops at for thresholds below total_weight are exactly the non-empty
\* ones, so every step that does not return False pops exactly one entry (the
\* references grow by the walls raised, less one); the walk runs out only for
\* a threshold of total_weight or more, and then selects bucket 0, empty or not.
WalkSelectsNonEmpty ==
    (phase = "generation" /\ ~AllBucketsEmpty(wall_queues)) =>
        \A chosen \in {{queue_index(wall_queues, r) : r \in RandomThresholds(wall_queues)}} :
            /\ chosen = {b \in 0..8 : wall_queues[b] # <<>>}
            /\ \A r \in {total_weight(wall_queues)} :
                  /\ RunsOut(wall_queues, r)
                  /\ queue_index(wall_queues, r) = 0
                  /\ ~RunsOut(wall_queues, r - 1)
            /\ \A qi \in chosen : \A o \in step_queue(gen, qi) :
                  /\ o.out.ret
                  /\ o.out.popped = wall_queues[qi][Len(wall_queues[qi])]
                  /\ TotalRefs(o.st.queues, 9) =
                        TotalRefs(wall_queues, 9) - 1
                        + Cardinality({j \in WallSlots :
                              o.st.walls[j + 1].typ > walls_by_index[j + 1].typ})

\* bucket 0 and other buckets are empty between non-empty ones, and a walk
\* that runs out falls back to the empty bucket 0
W_WalkSelectsNonEmpty ==
    /\ current_state = "step"
    /\ wall_queues[0] = <<>>
    /\ \E i, j \in 1..8 : /\ i + 1 < j
                          /\ wall_queues[i] # <<>>
                          /\ wall_queues[i + 1] = <<>>
                          /\ wall_queues[j] # <<>>
    /\ wall_queues[queue_index(wall_queues, total_weight(wall_queues))] = <<>>

(***************************************************************************)
(* The generator scripts: maze_generator_v6.py (Kruskal),                  *)
(* maze_generator_v1.py (backtracker), maze_generator_v3.py (Prim).        *)
(***************************************************************************)
\* Bound of the generator scripts: grids of at most MaxGeneratorCells cells.
MaxGeneratorCells == 6

\* <<rows, cols>>
GeneratorGrids ==
    {g \in (1..MaxHeight) \X (1..MaxWidth) : g[1] * g[2] <= MaxGeneratorCells}

\* the cells (r, c) of a grid
CellsOf(rows, cols) == (0..(rows - 1)) \X (0..(cols - 1))

\* Cell(r, c): all four walls up, not visited
Cell == [walls |-> [top |-> TRUE, right |-> TRUE, bottom |-> TRUE, left |-> TRUE],
         visited |-> FALSE]

\* grid = [[Cell(r, c) for c in range(cols)] for r in range(rows)]
NewGrid(rows, cols) == [cell \in CellsOf(rows, cols) |-> Cell]

\* maze_solver_bfs.py is not run
SolverNotRun ==
    /\ GRID_WIDTH = 0
    /\ GRID_HEIGHT = 0
    /\ union_find = <<>>
    /\ walls_by_index = <<>>
    /\ wall_queues = [i \in 0..8 |-> <<>>]
    /\ start_x = Unset
    /\ finish_x = Unset
    /\ solution_state = <<>>
    /\ solution_level = <<>>
    /\ solution_depth = 0
    /\ phase = NotRun.pc
    /\ current_state = NotRun.pc
    /\ screen = NoScreen(0, 0)

\* the orders random.shuffle can leave a list of the elements of S in
RECURSIVE Shuffles(_)
Shuffles(S) ==
    IF S = {} THEN {<<>>}
    ELSE UNION {{<<x>> \o p : p \in Shuffles(S \ {x})} : x \in S}

\* UnionFind.find with its path compression: the parent map it leaves and the
\* root it returns
RECURSIVE UnionFind_find(_, _)
UnionFind_find(parent, cell) ==
    IF parent[cell] # cell
    THEN LET f == UnionFind_find(parent, parent[cell])
         IN  [parent |-> [f.parent EXCEPT ![cell] = f.root], root |-> f.root]
    ELSE [parent |-> parent, root |-> cell]

\* UnionFind.union that forgets the branch for equal or smaller rank
UnionFind_union_rank_only(uf, cell1, cell2) ==
    LET f1 == UnionFind_find(uf.parent, cell1)
        f2 == UnionFind_find(f1.parent, cell2)
    IN  IF f1.root # f2.root /\ uf.rank[f1.root] > uf.rank[f2.root]
        THEN [parent |-> [f2.parent EXCEPT ![f2.root] = f1.root], rank |-> uf.rank]
        ELSE [parent |-> f2.parent, rank |-> uf.rank]

\* UnionFind.union on uf = [parent, rank]
UnionFind_union(uf, cell1, cell2) ==
    LET f1 == UnionFind_find(uf.parent, cell1)
        f2 == UnionFind_find(f1.parent, cell2)
    IN  IF f1.root # f2.root
        THEN IF uf.rank[f1.root] > uf.rank[f2.root]
             THEN [parent |-> [f2.parent EXCEPT ![f2.root] = f1.root], rank |-> uf.rank]
             ELSE [parent |-> [f2.parent EXCEPT ![f1.root] = f2.root],
                   rank |-> IF uf.rank[f1.root] = uf.rank[f2.root]
                            THEN [uf.rank EXCEPT ![f2.root] = @ + 1]
                            ELSE uf.rank]
        ELSE [parent |-> f2.parent, rank |-> uf.rank]

\* the walls generate_maze of maze_generator_v6.py collects: ('v', r, c) below
\* cell (r, c), ('h', r, c) to its right
KruskalWalls(rows, cols) ==
    {<<"v", cell[1], cell[2]>> : cell \in {d \in CellsOf(rows, cols) : d[1] < rows - 1}}
    \cup {<<"h", cell[1], cell[2]>> : cell \in {d \in CellsOf(rows, cols) : d[2] < cols - 1}}

\* the two cells of a wall
KruskalCell1(wall) == <<wall[2], wall[3]>>
KruskalCell2(wall) ==
    IF wall[1] = "v" THEN <<wall[2] + 1, wall[3]>> ELSE <<wall[2], wall[3] + 1>>

\* grid with both sides of the wall cleared
KruskalOpen(cells, wall) ==
    IF wall[1] = "v"
    THEN [cells EXCEPT ![KruskalCell1(wall)].walls.bottom = FALSE,
                      ![KruskalCell2(wall)].walls.top = FALSE]
    ELSE [cells EXCEPT ![KruskalCell1(wall)].walls.right = FALSE,
                      ![KruskalCell2(wall)].walls.left = FALSE]

\* generate_maze of maze_generator_v6.py up to the loop, for one shuffle
KruskalStart(rows, cols, shuffled) ==
    [pc |-> "loop", rows |-> rows, cols |-> cols,
     grid |-> NewGrid(rows, cols),
     parent |-> [cell \in CellsOf(rows, cols) |-> cell],
     rank |-> [cell \in CellsOf(rows, cols) |-> 0],
     walls |-> shuffled,
     k |-> 0,
     forced |-> FALSE]

\* one pass of "for wall in walls": the loop ends when the list is used up or
\* start and end have the same root, else the wall is processed
KruskalLoop(s) ==
    IF s.k >= Len(s.walls)
    THEN [s EXCEPT !.pc = "after loop"]
    ELSE LET wall == s.walls[s.k + 1]
             f1 == UnionFind_find(s.parent, <<0, 0>>)
             f2 == UnionFind_find(f1.parent, <<s.rows - 1, s.cols - 1>>)
             f3 == UnionFind_find(f2.parent, KruskalCell1(wall))
             f4 == UnionFind_find(f3.parent, KruskalCell2(wall))
             u == UnionFind_union([parent |-> f4.parent, rank |-> s.rank],
                                  KruskalCell1(wall), KruskalCell2(wall))
         IN  IF f1.root = f2.root
             THEN [s EXCEPT !.parent = f2.parent, !.pc = "after loop"]
             ELSE IF f3.root # f4.root
             THEN [s EXCEPT !.parent = u.parent, !.rank = u.rank,
                            !.grid = KruskalOpen(s.grid, wall), !.k = @ + 1]
             ELSE [s EXCEPT !.parent = f4.parent, !.k = @ + 1]

\* generate_maze after the loop: the forced connection when start and end
\* have different roots (grid[-2] raises IndexError on a grid of one row),
\* then the entry and the exit
KruskalAfterLoop(s) ==
    LET f1 == UnionFind_find(s.parent, <<0, 0>>)
        f2 == UnionFind_find(f1.parent, <<s.rows - 1, s.cols - 1>>)
        last == <<s.rows - 1, s.cols - 1>>
        above == <<s.rows - 2, s.cols - 1>>
        forced == [s.grid EXCEPT ![last].walls.right = FALSE,
                                 ![above].walls.bottom = FALSE]
        connected == IF f1.root # f2.root THEN forced ELSE s.grid
    IN  IF f1.root # f2.root /\ s.rows < 2
        THEN [s EXCEPT !.parent = f2.parent, !.forced = TRUE, !.pc = "IndexError",
                       !.grid[last].walls.right = FALSE]
        ELSE [s EXCEPT !.parent = f2.parent,
                       !.forced = f1.root # f2.root,
                       !.grid = [connected EXCEPT ![<<0, 0>>].walls.top = FALSE,
                                             ![last].walls.right = FALSE],
                       !.pc = "returned"]

KruskalInit ==
    /\ SolverNotRun
    /\ maze_generator_v1 = NotRun
    /\ maze_generator_v3 = NotRun
    /\ \E g \in GeneratorGrids : \E shuffled \in Shuffles(KruskalWalls(g[1], g[2])) :
          maze_generator_v6 = KruskalStart(g[1], g[2], shuffled)

KruskalIterate ==
    /\ maze_generator_v6.pc = "loop"
    /\ maze_generator_v6' = KruskalLoop(maze_generator_v6)
    /\ UNCHANGED <<grid, maze, solver, phase, current_state, screen,
                   maze_generator_v1, maze_generator_v3>>

KruskalReturn ==
    /\ maze_generator_v6.pc = "after loop"
    /\ maze_generator_v6' = KruskalAfterLoop(maze_generator_v6)
    /\ UNCHANGED <<grid, maze, solver, phase, current_state, screen,
                   maze_generator_v1, maze_generator_v3>>

KruskalNext == KruskalIterate \/ KruskalReturn

\* maze_generator_v6.generate_maze on every grid and every shuffle
KruskalSpec == KruskalInit /\ [][KruskalNext]_vars

\* the wall between two adjacent cells is open on both of its sides
Passage(cells, a, b) ==
    \/ b = <<a[1] + 1, a[2]>> /\ ~cells[a].walls.bottom /\ ~cells[b].walls.top
    \/ b = <<a[1], a[2] + 1>> /\ ~cells[a].walls.right /\ ~cells[b].walls.left

\* the open interior walls of a grid, as pairs of cells
Passages(cells) ==
    {e \in (DOMAIN cells) \X (DOMAIN cells) : Passage(cells, e[1], e[2])}

\* the cells joined to a cell of S by open interior walls
RECURSIVE JoinedCells(_, _)
JoinedCells(cells, S) ==
    LET more == S \cup {b \in DOMAIN cells :
                          \E a \in S : Passage(cells, a, b) \/ Passage(cells, b, a)}
    IN  IF more = S THEN S ELSE JoinedCells(cells, more)

\* the open interior walls close no cycle: there are as many of them as
\* cells minus connected components
NoCycle(cells) ==
    Cardinality(Passages(cells)) + Cardinality({JoinedCells(cells, {a}) : a \in DOMAIN cells})
        = Cardinality(DOMAIN cells)

\* C36: in maze_generator_v6.generate_maze, for every shuffle of the walls,
\* once the loop is over cell (0, 0) and cell (rows-1, cols-1) are joined by
\* walls the Kruskal loop opened, the opened walls never close a cycle, and
\* the forced connection after the loop is never made.
KruskalJoinsStartAndEnd ==
    maze_generator_v6.pc # NotRun.pc =>
        /\ ~maze_generator_v6.forced
        /\ maze_generator_v6.pc \in {"loop", "after loop", "returned"}
        /\ NoCycle(maze_generator_v6.grid)
        /\ maze_generator_v6.pc \in {"after loop", "returned"} =>
              <<maze_generator_v6.rows - 1, maze_generator_v6.cols - 1>>
                  \in JoinedCells(maze_generator_v6.grid, {<<0, 0>>})

\* generate_maze returned after its loop left a wall standing whose cells
\* were already joined, and broke off before the list was used up
W_KruskalJoinsStartAndEnd ==
    /\ maze_generator_v6.pc = "returned"
    /\ maze_generator_v6.k < Len(maze_generator_v6.walls)
    /\ \E i \in 1..maze_generator_v6.k :
          LET wall == maze_generator_v6.walls[i]
          IN  /\ ~Passage(maze_generator_v6.grid, KruskalCell1(wall), KruskalCell2(wall))
              /\ KruskalCell2(wall) \in JoinedCells(maze_generator_v6.grid, {KruskalCell1(wall)})

\* Cell.get_unvisited_neighbors of maze_generator_v1.py: top, right, bottom,
\* left, inside the grid and not visited
get_unvisited_neighbors(cells, cell) ==
    {n \in {<<cell[1] - 1, cell[2]>>, <<cell[1], cell[2] + 1>>,
            <<cell[1] + 1, cell[2]>>, <<cell[1], cell[2] - 1>>} :
        n \in DOMAIN cells /\ ~cells[n].visited}

\* remove_walls(current, next_cell) of maze_generator_v1.py
remove_walls(cells, current, next_cell) ==
    LET di == next_cell[1] - current[1]
        dj == next_cell[2] - current[2]
    IN  IF di = -1
        THEN [cells EXCEPT ![current].walls.top = FALSE, ![next_cell].walls.bottom = FALSE]
        ELSE IF di = 1
        THEN [cells EXCEPT ![current].walls.bottom = FALSE, ![next_cell].walls.top = FALSE]
        ELSE IF dj = 1
        THEN [cells EXCEPT ![current].walls.right = FALSE, ![next_cell].walls.left = FALSE]
        ELSE IF dj = -1
        THEN [cells EXCEPT ![current].walls.left = FALSE, ![next_cell].walls.right = FALSE]
        ELSE cells

\* list.pop(i), i counted from 0
PopAt(list, i) == SubSeq(list, 1, i) \o SubSeq(list, i + 2, Len(list))

\* generate_maze of maze_generator_v1.py up to its loop
BacktrackerStart(rows, cols) ==
    [pc |-> "loop", rows |-> rows, cols |-> cols,
     grid |-> [NewGrid(rows, cols) EXCEPT ![<<0, 0>>].visited = TRUE],
     stack |-> <<<<0, 0>>>>]

\* one pass of "while stack": the states it can leave, one for each
\* neighbour random.shuffle can put first, or one for each entry a pop can
\* remove (stack.pop() the top; stack.pop(random.randint(0, len(stack)-2)),
\* for len(stack) > 1, any entry but the top)
BacktrackerLoop(s) ==
    LET current == s.stack[Len(s.stack)]
        neighbors == get_unvisited_neighbors(s.grid, current)
    IN  IF neighbors # {}
        THEN {[s EXCEPT !.grid = [remove_walls(s.grid, current, next_cell)
                                      EXCEPT ![next_cell].visited = TRUE],
                        !.stack = Append(@, next_cell)] : next_cell \in neighbors}
        ELSE {[s EXCEPT !.stack = PopAt(@, i)] :
                 i \in IF Len(s.stack) > 1 THEN 0..(Len(s.stack) - 1)
                       ELSE {Len(s.stack) - 1}}

\* generate_maze of maze_generator_v1.py after its loop: entry and exit
BacktrackerAfterLoop(s) ==
    [s EXCEPT !.grid = [s.grid EXCEPT ![<<0, 0>>].walls.top = FALSE,
                                      ![<<s.rows - 1, s.cols - 1>>].walls.bottom = FALSE],
              !.pc = "returned"]

BacktrackerInit ==
    /\ SolverNotRun
    /\ maze_generator_v6 = NotRun
    /\ maze_generator_v3 = NotRun
    /\ \E g \in GeneratorGrids : maze_generator_v1 = BacktrackerStart(g[1], g[2])

BacktrackerIterate ==
    /\ maze_generator_v1.pc = "loop"
    /\ maze_generator_v1.stack # <<>>
    /\ maze_generator_v1' \in BacktrackerLoop(maze_generator_v1)
    /\ UNCHANGED <<grid, maze, solver, phase, current_state, screen,
                   maze_generator_v6, maze_generator_v3>>

BacktrackerReturn ==
    /\ maze_generator_v1.pc = "loop"
    /\ maze_generator_v1.stack = <<>>
    /\ maze_generator_v1' = BacktrackerAfterLoop(maze_generator_v1)
    /\ UNCHANGED <<grid, maze, solver, phase, current_state, screen,
                   maze_generator_v6, maze_generator_v3>>

BacktrackerNext == BacktrackerIterate \/ BacktrackerReturn

\* maze_generator_v1.generate_maze on every grid and every random choice
BacktrackerSpec == BacktrackerInit /\ [][BacktrackerNext]_vars

\* C37 as stated: when maze_generator_v1.generate_maze returns, every cell
\* has been visited and is joined to cell (0, 0) by open walls.
BacktrackerVisitsAll ==
    maze_generator_v1.pc = "returned" =>
        /\ \A cell \in DOMAIN maze_generator_v1.grid : maze_generator_v1.grid[cell].visited
        /\ JoinedCells(maze_generator_v1.grid, {<<0, 0>>}) = DOMAIN maze_generator_v1.grid

\* the four directions, in the order generate_maze of maze_generator_v3.py
\* appends them
Directions == <<"top", "right", "bottom", "left">>

\* the neighbour position of a cell in a direction
PrimNeighbor(cell, direction) ==
    IF direction = "top" THEN <<cell[1] - 1, cell[2]>>
    ELSE IF direction = "right" THEN <<cell[1], cell[2] + 1>>
    ELSE IF direction = "bottom" THEN <<cell[1] + 1, cell[2]>>
    ELSE <<cell[1], cell[2] - 1>>

\* the side of the neighbour that faces back
Opposite(direction) ==
    IF direction = "top" THEN "bottom"
    ELSE IF direction = "right" THEN "left"
    ELSE IF direction = "bottom" THEN "top"
    ELSE "right"

\* the four (cell, direction) entries appended for a cell
PrimWallsOf(cell) == [i \in 1..4 |-> <<cell, Directions[i]>>]

\* generate_maze of maze_generator_v3.py up to its loop
PrimStart(rows, cols) ==
    [pc |-> "loop", rows |-> rows, cols |-> cols,
     grid |-> [NewGrid(rows, cols) EXCEPT ![<<0, 0>>].visited = TRUE],
     walls |-> PrimWallsOf(<<0, 0>>)]

\* one pass of "while walls" that opens the wall whether or not the
\* neighbour is visited
PrimLoop_any_neighbor(s, index) ==
    LET current_cell == s.walls[index + 1][1]
        direction == s.walls[index + 1][2]
        rest == PopAt(s.walls, index)
        neighbor == PrimNeighbor(current_cell, direction)
    IN  IF neighbor \notin DOMAIN s.grid
        THEN [s EXCEPT !.walls = rest]
        ELSE [s EXCEPT !.grid = [s.grid EXCEPT
                                    ![current_cell].walls[direction] = FALSE,
                                    ![neighbor].walls[Opposite(direction)] = FALSE,
                                    ![neighbor].visited = TRUE],
                        !.walls = IF s.grid[neighbor].visited THEN rest
                                  ELSE rest \o PrimWallsOf(neighbor)]

\* one pass of "while walls" for index = random.randint(0, len(walls) - 1)
PrimLoop(s, index) ==
    LET current_cell == s.walls[index + 1][1]
        direction == s.walls[index + 1][2]
        rest == PopAt(s.walls, index)
        neighbor == PrimNeighbor(current_cell, direction)
    IN  IF neighbor \notin DOMAIN s.grid
        THEN [s EXCEPT !.walls = rest]
        ELSE IF ~s.grid[neighbor].visited
        THEN [s EXCEPT !.grid = [s.grid EXCEPT
                                    ![current_cell].walls[direction] = FALSE,
                                    ![neighbor].walls[Opposite(direction)] = FALSE,
                                    ![neighbor].visited = TRUE],
                        !.walls = rest \o PrimWallsOf(neighbor)]
        ELSE [s EXCEPT !.walls = rest]

\* generate_maze of maze_generator_v3.py after its loop: entry and exit
PrimAfterLoop(s) ==
    [s EXCEPT !.grid = [s.grid EXCEPT ![<<0, 0>>].walls.top = FALSE,
                                      ![<<s.rows - 1, s.cols - 1>>].walls.right = FALSE],
              !.pc = "returned"]

\* Bound of the Prim script: grids of at most MaxPrimCells cells.
MaxPrimCells == 4

PrimInit ==
    /\ SolverNotRun
    /\ maze_generator_v6 = NotRun
    /\ maze_generator_v1 = NotRun
    /\ \E g \in {h \in GeneratorGrids : h[1] * h[2] <= MaxPrimCells} :
          maze_generator_v3 = PrimStart(g[1], g[2])

PrimIterate ==
    /\ maze_generator_v3.pc = "loop"
    /\ maze_generator_v3.walls # <<>>
    /\ \E index \in 0..(Len(maze_generator_v3.walls) - 1) :
          maze_generator_v3' = PrimLoop(maze_generator_v3, index)
    /\ UNCHANGED <<grid, maze, solver, phase, current_state, screen,
                   maze_generator_v6, maze_generator_v1>>

PrimReturn ==
    /\ maze_generator_v3.pc = "loop"
    /\ maze_generator_v3.walls = <<>>
    /\ maze_generator_v3' = PrimAfterLoop(maze_generator_v3)
    /\ UNCHANGED <<grid, maze, solver, phase, current_state, screen,
                   maze_generator_v6, maze_generator_v1>>

PrimNext == PrimIterate \/ PrimReturn

\* maze_generator_v3.generate_maze on every grid and every random index; the
\* script runs generate_maze to its end, nothing else is scheduled
PrimSpec == PrimInit /\ [][PrimNext]_vars /\ WF_vars(PrimNext)

\* the visited cells of a grid
VisitedCells(cells) == {cell \in DOMAIN cells : cells[cell].visited}

\* the two sides of every interior wall carry the same value
SidesAgree(cells) ==
    \A a \in DOMAIN cells : \A i \in 1..4 :
        PrimNeighbor(a, Directions[i]) \in DOMAIN cells =>
            cells[a].walls[Directions[i]]
                = cells[PrimNeighbor(a, Directions[i])].walls[Opposite(Directions[i])]

\* every interior wall open after a pass and closed before it lies between a
\* cell visited before the pass and a cell visited only by the pass
OpensVisitedToUnvisited(before, after) ==
    \A e \in Passages(after) \ Passages(before) :
        \E a, b \in {e[1], e[2]} :
            /\ a # b
            /\ before[a].visited
            /\ ~before[b].visited
            /\ after[b].visited

\* C38: maze_generator_v3.generate_maze terminates with every cell visited;
\* a pass opens a wall only between a visited cell and a cell unvisited at
\* that moment; the open interior walls are one fewer than the visited
\* cells and join them all, so on return they are rows*cols - 1 and form a
\* spanning tree; the two sides of every interior wall always agree.
PrimBuildsSpanningTree ==
    /\ [](maze_generator_v3.pc # NotRun.pc =>
            /\ SidesAgree(maze_generator_v3.grid)
            /\ Cardinality(Passages(maze_generator_v3.grid))
                  = Cardinality(VisitedCells(maze_generator_v3.grid)) - 1
            /\ JoinedCells(maze_generator_v3.grid, {<<0, 0>>})
                  = VisitedCells(maze_generator_v3.grid)
            /\ maze_generator_v3.pc = "returned" =>
                  /\ VisitedCells(maze_generator_v3.grid) = DOMAIN maze_generator_v3.grid
                  /\ Cardinality(Passages(maze_generator_v3.grid))
                        = maze_generator_v3.rows * maze_generator_v3.cols - 1)
    /\ [][maze_generator_v3.pc # NotRun.pc =>
            OpensVisitedToUnvisited(maze_generator_v3.grid, maze_generator_v3'.grid)]_vars
    /\ <>(maze_generator_v3.pc = "returned")

\* generate_maze returned on the 2x2 grid, where a pass found both cells of
\* a wall visited and left it standing
W_PrimBuildsSpanningTree ==
    /\ maze_generator_v3.pc = "returned"
    /\ maze_generator_v3.rows = 2
    /\ maze_generator_v3.cols = 2
    /\ Cardinality(Passages(maze_generator_v3.grid)) = 3

====
